---- MODULE Spec2Model ----
(***************************************************************************)
(* overleaf2gitlab: the remote reconciliation and synchronisation engine   *)
(* of src/src/overleaf2gitlab/backup.py and the bulk loop of               *)
(* src/src/overleaf2gitlab/main.py, as a state machine.                    *)
(*                                                                         *)
(* Every external command (subprocess.run) is one step; its outcome is     *)
(* chosen by the environment.  Remote names, URLs and paths are strings,   *)
(* built and compared as the code builds and compares them.                *)
(***************************************************************************)
EXTENDS Naturals, Sequences, FiniteSets, TLC

(* ------------------------------ bounds --------------------------------- *)
MaxPaths == 2
MaxProjects == 2
MaxRuns == 1
MaxCalls == 2
MaxResolveFailures == 1

(* ------------------------------ strings -------------------------------- *)
\* str.startswith
StartsWith(s, p) == Len(s) >= Len(p) /\ SubSeq(s, 1, Len(p)) = p

\* The characters remote names are made of, in code-point order.
Alphabet == "-0123456789abcdefghijklmnopqrstuvwxyz"

Ord(c) == CHOOSE k \in 1..Len(Alphabet) : SubSeq(Alphabet, k, k) = c

\* Python's str < str: lexicographic by code point, a proper prefix first.
RECURSIVE StrLess(_, _)
StrLess(a, b) ==
    IF Len(b) = 0 THEN FALSE
    ELSE IF Len(a) = 0 THEN TRUE
    ELSE IF SubSeq(a, 1, 1) = SubSeq(b, 1, 1)
         THEN StrLess(SubSeq(a, 2, Len(a)), SubSeq(b, 2, Len(b)))
         ELSE Ord(SubSeq(a, 1, 1)) < Ord(SubSeq(b, 1, 1))

\* sorted(names): the names of S in ascending order.
RECURSIVE Sorted(_)
Sorted(S) ==
    IF S = {} THEN << >>
    ELSE LET m == CHOOSE x \in S : \A y \in S \ {x} : StrLess(x, y)
         IN  <<m>> \o Sorted(S \ {m})

(* ------------------------------ data ----------------------------------- *)
\* The configured ids, in mapping order.
ProjectOrder == [j \in 1..MaxProjects |-> "P" \o ToString(j)]
ProjectIds == {ProjectOrder[j] : j \in 1..MaxProjects}
DestinationPaths == {"gl/a/repo1.git", "gl/b/repo2.git"}

\* f"https://git.overleaf.com/{overleaf_id}"
OriginUrl(overleaf_id) == "https://git.overleaf.com/" \o overleaf_id

\* f"ssh://{gitlab_path}"
BackupUrl(gitlab_path) == "ssh://" \o gitlab_path

\* f"backup{i}", i counted from 0 (the model's sequences count from 1)
BackupName(i) == "backup" \o ToString(i)

\* Path lists of length lo..hi.
PathLists(lo, hi) == UNION {[1..n -> DestinationPaths] : n \in lo..hi}

(* A remote set: a function from the names present to their URLs. *)
NoRemotes == << >>
Put(f, n, u) == [m \in DOMAIN f \cup {n} |-> IF m = n THEN u ELSE f[m]]
Drop(f, n) == [m \in DOMAIN f \ {n} |-> f[m]]
Restrict(f, S) == [m \in DOMAIN f \cap S |-> f[m]]

\* The branch name HEAD refers to in a new repository (init.defaultBranch).
Heads == {"main", "master"}

\* The Mirror directory under the cache root: f"overleaf_{overleaf_id}".
MirrorDir(overleaf_id) == "overleaf_" \o overleaf_id

\* A Mirror: the directory, its .git marker, the credential helper setting,
\* the branch HEAD names, and the remotes.
NoMirror == [dir |-> FALSE, git |-> FALSE, helper |-> FALSE, head |-> "",
             remotes |-> NoRemotes]

(* ------------------------------ state ---------------------------------- *)
VARIABLES
    config,           \* available_projects, in mapping order: <<[id, paths], ...>>;
                      \* for edit_gitlab_paths config['repos']: <<[id, value], ...>>
    clean,            \* the clean flag of the invocation
    mirror,           \* the cache: project id -> Mirror on disk
    net,              \* the network during one sync: unreachable remotes, origin's branch
    pc,               \* the program point
    entry,            \* the function the outermost caller invoked
    proj,             \* overleaf_id and gitlab_paths of the call in progress
    current_remotes,  \* local of setup_git_remotes / the Validator / sync_repositories
    todo,             \* setup_git_remotes: backup remotes still to remove
    i,                \* setup_git_remotes: enumerate() position in gitlab_paths, from 1
    pulled,           \* sync_repositories: pulled
    branch,           \* sync_repositories: loop variable of the pull loop
    backup_remotes,   \* sync_repositories: sorted(backup_remotes)
    current_branch,   \* sync_repositories: the branch to push
    k,                \* sync_repositories: position in sorted(backup_remotes), from 1
    setup_ok,         \* value returned by setup_git_remotes
    valid,            \* value returned by check_cache_overleaf_git_config_valid
    sync_ok,          \* value returned by sync_repositories
    bop_ok,           \* value returned by backup_overleaf_project
    bulk_ok,          \* value returned by backup_all_projects
    single_ok,        \* value returned by backup_single_project
    idx,              \* backup_all_projects: position in available_projects, from 1
    success_count,    \* backup_all_projects: success_count
    total_count,      \* backup_all_projects: total_count
    exit_status,      \* the process exit status of main
    log,              \* external commands issued since the latest call of
                      \* setup_git_remotes, the Validator or sync_repositories began
    called,           \* functions entered by the workflow in progress, in order
    results,          \* verdicts returned to backup_all_projects, in order
    started,          \* ids backup_all_projects started the workflow for, in order
    prev,             \* the previous top-level call: its arguments and what it left
    calls             \* top-level calls / invocations made so far

vars == <<config, clean, mirror, net, pc, entry, proj, current_remotes, todo, i,
          pulled, branch, backup_remotes, current_branch, k, setup_ok, valid,
          sync_ok, bop_ok, bulk_ok, single_ok, idx, success_count, total_count,
          exit_status, log,
          called, results, started, prev, calls>>

setupLocals == <<current_remotes, todo, i>>
syncLocals == <<pulled, branch, backup_remotes, current_branch, k>>
bulkVars == <<idx, success_count, total_count, bulk_ok, single_ok, exit_status,
              results, started>>
inputs == <<config, clean>>

NoProject == [id |-> "", paths |-> << >>]
NoNet == [down |-> {}, origin |-> "main"]
NoPrev == [fn |-> "", proj |-> NoProject, remotes |-> NoRemotes, ok |-> FALSE,
           allOk |-> FALSE]

LoggedRef(cmd, arg, ref, ok) ==
    Append(log, [cmd |-> cmd, arg |-> arg, ref |-> ref, ok |-> ok])
Logged(cmd, arg, ok) == LoggedRef(cmd, arg, "", ok)
AllOk(l) == \A n \in 1..Len(l) : l[n].ok

repo == mirror[proj.id]
SetRemotes(r) == mirror' = [mirror EXCEPT ![proj.id].remotes = r]

(* --------------------------- the Git tool ------------------------------ *)
\* git remote add <name> <url>: refuses a name that exists.
GitRemoteAdd(remotes, name, url, ok) ==
    IF ok /\ name \notin DOMAIN remotes
    THEN [done |-> TRUE, remotes |-> Put(remotes, name, url)]
    ELSE [done |-> FALSE, remotes |-> remotes]

\* git remote set-url <name> <url>: refuses a name that does not exist.
GitRemoteSetUrl(remotes, name, url, ok) ==
    IF ok /\ name \in DOMAIN remotes
    THEN [done |-> TRUE, remotes |-> Put(remotes, name, url)]
    ELSE [done |-> FALSE, remotes |-> remotes]

\* git remote remove <name>: refuses a name that does not exist.
GitRemoteRemove(remotes, name, ok) ==
    IF ok /\ name \in DOMAIN remotes
    THEN [done |-> TRUE, remotes |-> Drop(remotes, name)]
    ELSE [done |-> FALSE, remotes |-> remotes]

(* -------------------------- Remote Inspector --------------------------- *)
\* What the environment can do to one inspection: the listing fails, or it
\* succeeds and the URL of some of the listed names does not resolve.
InspectionOutcomes(remotes) ==
    {[listOk |-> FALSE, unresolved |-> {}]} \cup
    {[listOk |-> TRUE, unresolved |-> U] :
        U \in {V \in SUBSET DOMAIN remotes : Cardinality(V) <= MaxResolveFailures}}

\* get_git_remote_url: the URL, or None (here "") when the command fails.
get_git_remote_url(remotes, remote_name, unresolved) ==
    IF remote_name \in DOMAIN remotes /\ remote_name \notin unresolved
    THEN remotes[remote_name] ELSE ""

\* get_all_git_remotes: {} when the listing fails; else the listed names
\* whose URL resolved to a non-empty string.
get_all_git_remotes(remotes, o) ==
    IF ~o.listOk THEN NoRemotes
    ELSE LET remote_names == DOMAIN remotes
             kept == {n \in remote_names :
                         n # "" /\ get_git_remote_url(remotes, n, o.unresolved) # ""}
         IN  [n \in kept |-> get_git_remote_url(remotes, n, o.unresolved)]

InspectionOk(o) == o.listOk /\ o.unresolved = {}

(* --------------------------- initial states ---------------------------- *)
\* Remote sets a Mirror can hold before a call: left by earlier runs with
\* other path lists, by an earlier version of the tool, or added by hand.
InitRemoteSets(id) ==
    LET choices == [origin |-> {"", OriginUrl(id), "https://git.overleaf.com/stale"},
                    backup0 |-> {""} \cup {BackupUrl(p) : p \in DestinationPaths},
                    backup1 |-> {""} \cup {BackupUrl(p) : p \in DestinationPaths},
                    old |-> {"", BackupUrl("gl/old/repo0.git")},
                    upstream |-> {"", "https://example.org/upstream.git"}]
        named(c) == [n \in {"origin", "backup0", "backup1", "backup-old", "upstream"} |->
                        CASE n = "origin" -> c.origin
                          [] n = "backup0" -> c.backup0
                          [] n = "backup1" -> c.backup1
                          [] n = "backup-old" -> c.old
                          [] OTHER -> c.upstream]
    IN  {Restrict(named(c), {n \in DOMAIN named(c) : named(c)[n] # ""}) :
            c \in [origin : choices.origin, backup0 : choices.backup0,
                   backup1 : choices.backup1, old : choices.old,
                   upstream : choices.upstream]}

InitMirrors(id) ==
    {NoMirror} \cup
    {[dir |-> TRUE, git |-> TRUE, helper |-> TRUE, head |-> "master", remotes |-> r] :
        r \in InitRemoteSets(id)}

\* Everything but the cache, the inputs and the entry point.
InitIdle ==
    /\ net = NoNet
    /\ pc = "idle"
    /\ current_remotes = NoRemotes /\ todo = << >> /\ i = 1
    /\ pulled = FALSE /\ branch = "" /\ backup_remotes = << >>
    /\ current_branch = "" /\ k = 1
    /\ setup_ok = FALSE /\ valid = FALSE /\ sync_ok = FALSE /\ bop_ok = FALSE
    /\ bulk_ok = FALSE /\ single_ok = FALSE
    /\ idx = 1 /\ success_count = 0 /\ total_count = 0 /\ exit_status = 0
    /\ log = << >> /\ called = << >> /\ results = << >> /\ started = << >>
    /\ prev = NoPrev
    /\ calls = 0

(* --------------------------- Mirror Provisioner ------------------------ *)
frameSetup == <<inputs, net, entry, proj, syncLocals, valid, sync_ok, bop_ok,
                bulkVars, called, prev, calls>>

\* SetupEnter without the call of mk_cache_overleaf_git_dir.
SetupEnter_NoProvision ==
    /\ pc = "sgr_enter"
    /\ pc' = "sgr_inspect_origin"
    /\ UNCHANGED <<mirror, setupLocals, setup_ok, log, frameSetup>>

\* setup_git_remotes, lines 156-161, and the test of mk_cache_overleaf_git_dir.
SetupEnter ==
    /\ pc = "sgr_enter"
    /\ pc' = IF repo.git THEN "sgr_inspect_origin" ELSE "mk_dir"
    /\ UNCHANGED <<mirror, setupLocals, setup_ok, log, frameSetup>>

\* mk_cache_overleaf_dir: os.makedirs(..., exist_ok=True)
MkCacheDir ==
    /\ pc = "mk_dir"
    /\ mirror' = [mirror EXCEPT ![proj.id].dir = TRUE]
    /\ pc' = "mk_init"
    /\ UNCHANGED <<setupLocals, setup_ok, log, frameSetup>>

\* git init, check=True, outside every try block.
GitInit ==
    /\ pc = "mk_init"
    /\ \E ok \in BOOLEAN, h \in Heads :
        /\ ~ok => h = "master"
        /\ log' = Logged("git init", "", ok)
        /\ mirror' = IF ok THEN [mirror EXCEPT ![proj.id].git = TRUE,
                                               ![proj.id].head = h]
                            ELSE mirror
        /\ pc' = IF ok THEN "mk_config" ELSE "raised"
    /\ UNCHANGED <<setupLocals, setup_ok, frameSetup>>

\* git config --local credential.helper, check=True, outside every try block.
GitConfig ==
    /\ pc = "mk_config"
    /\ \E ok \in BOOLEAN :
        /\ log' = Logged("git config", "credential.helper", ok)
        /\ mirror' = [mirror EXCEPT ![proj.id].helper = @ \/ ok]
        /\ pc' = IF ~ok THEN "raised"
                 ELSE IF entry = "mk_cache_overleaf_git_dir" THEN "idle"
                 ELSE "sgr_inspect_origin"
    /\ UNCHANGED <<setupLocals, setup_ok, frameSetup>>

\* line 25, mk_cache_overleaf_git_dir called on its own: nothing to do when
\* the .git marker is there.
MkEnter ==
    /\ pc = "mk_enter"
    /\ pc' = IF repo.git THEN "idle" ELSE "mk_dir"
    /\ UNCHANGED <<mirror, setupLocals, setup_ok, log, frameSetup>>

(* --------------------------- Remote Reconciler ------------------------- *)
\* return from setup_git_remotes
SetupReturns(b) ==
    /\ setup_ok' = b
    /\ current_remotes' = NoRemotes /\ todo' = << >> /\ i' = 1
    /\ pc' = IF entry = "setup_git_remotes" THEN "idle" ELSE "bop_setup_ret"

\* line 166: current_remotes = get_all_git_remotes(repo_path)
SetupInspectOrigin ==
    /\ pc = "sgr_inspect_origin"
    /\ \E o \in InspectionOutcomes(repo.remotes) :
        /\ current_remotes' = get_all_git_remotes(repo.remotes, o)
        /\ log' = Logged("git remote", "", InspectionOk(o))
    /\ pc' = "sgr_origin"
    /\ UNCHANGED <<mirror, todo, i, setup_ok, frameSetup>>

\* SetupOrigin with the set-url branch writing the bare prefix as the URL.
SetupOrigin_BareUrl ==
    /\ pc = "sgr_origin"
    /\ \E ok \in BOOLEAN :
        LET origin_url == OriginUrl(proj.id)
            seen == "origin" \in DOMAIN current_remotes
            r == IF seen
                 THEN GitRemoteSetUrl(repo.remotes, "origin", OriginUrl(""), ok)
                 ELSE GitRemoteAdd(repo.remotes, "origin", origin_url, ok)
        IN  /\ log' = Logged(IF seen THEN "git remote set-url" ELSE "git remote add",
                             "origin", r.done)
            /\ SetRemotes(r.remotes)
            /\ IF r.done
               THEN pc' = "sgr_inspect_backups" /\ UNCHANGED <<setupLocals, setup_ok>>
               ELSE SetupReturns(FALSE)
    /\ UNCHANGED frameSetup

\* SetupOrigin issuing no command when origin was seen with the expected URL.
SetupOrigin_SkipWhenCorrect ==
    /\ pc = "sgr_origin"
    /\ \E ok \in BOOLEAN :
        LET origin_url == OriginUrl(proj.id)
            seen == "origin" \in DOMAIN current_remotes
            r == IF seen
                 THEN GitRemoteSetUrl(repo.remotes, "origin", origin_url, ok)
                 ELSE GitRemoteAdd(repo.remotes, "origin", origin_url, ok)
        IN  IF seen /\ current_remotes["origin"] = origin_url
            THEN /\ pc' = "sgr_inspect_backups"
                 /\ UNCHANGED <<mirror, log, setupLocals, setup_ok>>
            ELSE /\ log' = Logged(IF seen THEN "git remote set-url" ELSE "git remote add",
                                  "origin", r.done)
                 /\ SetRemotes(r.remotes)
                 /\ IF r.done
                    THEN pc' = "sgr_inspect_backups" /\ UNCHANGED <<setupLocals, setup_ok>>
                    ELSE SetupReturns(FALSE)
    /\ UNCHANGED frameSetup

\* lines 168-177: set-url when origin was seen, add otherwise.
SetupOrigin ==
    /\ pc = "sgr_origin"
    /\ \E ok \in BOOLEAN :
        LET origin_url == OriginUrl(proj.id)
            seen == "origin" \in DOMAIN current_remotes
            r == IF seen
                 THEN GitRemoteSetUrl(repo.remotes, "origin", origin_url, ok)
                 ELSE GitRemoteAdd(repo.remotes, "origin", origin_url, ok)
        IN  /\ log' = Logged(IF seen THEN "git remote set-url" ELSE "git remote add",
                             "origin", r.done)
            /\ SetRemotes(r.remotes)
            /\ IF r.done
               THEN pc' = "sgr_inspect_backups" /\ UNCHANGED <<setupLocals, setup_ok>>
               ELSE SetupReturns(FALSE)
    /\ UNCHANGED frameSetup

\* The names the removal loop of lines 181-186 acts on, in iteration order.
OldBackupRemotes(remotes) == Sorted({n \in DOMAIN remotes : StartsWith(n, "backup")})

\* line 180: current_remotes = get_all_git_remotes(repo_path)
SetupInspectBackups ==
    /\ pc = "sgr_inspect_backups"
    /\ \E o \in InspectionOutcomes(repo.remotes) :
        /\ current_remotes' = get_all_git_remotes(repo.remotes, o)
        /\ todo' = OldBackupRemotes(current_remotes')
        /\ log' = Logged("git remote", "", InspectionOk(o))
    /\ pc' = "sgr_remove"
    /\ UNCHANGED <<mirror, i, setup_ok, frameSetup>>

\* SetupRemove going on to the next name when a removal fails.
SetupRemove_IgnoreFailure ==
    /\ pc = "sgr_remove"
    /\ IF todo = << >>
       THEN /\ pc' = "sgr_add"
            /\ i' = 1
            /\ UNCHANGED <<mirror, current_remotes, todo, setup_ok, log>>
       ELSE \E ok \in BOOLEAN :
            LET r == GitRemoteRemove(repo.remotes, Head(todo), ok)
            IN  /\ log' = Logged("git remote remove", Head(todo), r.done)
                /\ SetRemotes(r.remotes)
                /\ todo' = Tail(todo)
                /\ UNCHANGED <<pc, current_remotes, i, setup_ok>>
    /\ UNCHANGED frameSetup

\* lines 181-186: git remote remove, one old backup remote per step.
SetupRemove ==
    /\ pc = "sgr_remove"
    /\ IF todo = << >>
       THEN /\ pc' = "sgr_add"
            /\ i' = 1
            /\ UNCHANGED <<mirror, current_remotes, todo, setup_ok, log>>
       ELSE \E ok \in BOOLEAN :
            LET r == GitRemoteRemove(repo.remotes, Head(todo), ok)
            IN  /\ log' = Logged("git remote remove", Head(todo), r.done)
                /\ SetRemotes(r.remotes)
                /\ IF r.done
                   THEN /\ todo' = Tail(todo)
                        /\ UNCHANGED <<pc, current_remotes, i, setup_ok>>
                   ELSE SetupReturns(FALSE)
    /\ UNCHANGED frameSetup

\* SetupAdd taking the URL of every backup<i> from the first path.
SetupAdd_FirstPath ==
    /\ pc = "sgr_add"
    /\ IF i > Len(proj.paths)
       THEN SetupReturns(TRUE) /\ UNCHANGED <<mirror, log>>
       ELSE \E ok \in BOOLEAN :
            LET backup_name == BackupName(i - 1)
                backup_url == BackupUrl(proj.paths[1])
                r == GitRemoteAdd(repo.remotes, backup_name, backup_url, ok)
            IN  /\ log' = Logged("git remote add", backup_name, r.done)
                /\ SetRemotes(r.remotes)
                /\ IF r.done
                   THEN /\ i' = i + 1
                        /\ UNCHANGED <<pc, current_remotes, todo, setup_ok>>
                   ELSE SetupReturns(FALSE)
    /\ UNCHANGED frameSetup

\* SetupAdd going on to the next path when an add fails.
SetupAdd_IgnoreFailure ==
    /\ pc = "sgr_add"
    /\ IF i > Len(proj.paths)
       THEN SetupReturns(TRUE) /\ UNCHANGED <<mirror, log>>
       ELSE \E ok \in BOOLEAN :
            LET backup_name == BackupName(i - 1)
                backup_url == BackupUrl(proj.paths[i])
                r == GitRemoteAdd(repo.remotes, backup_name, backup_url, ok)
            IN  /\ log' = Logged("git remote add", backup_name, r.done)
                /\ SetRemotes(r.remotes)
                /\ i' = i + 1
                /\ UNCHANGED <<pc, current_remotes, todo, setup_ok>>
    /\ UNCHANGED frameSetup

\* lines 189-198: git remote add backup<i>, one path per step, then return True.
SetupAdd ==
    /\ pc = "sgr_add"
    /\ IF i > Len(proj.paths)
       THEN SetupReturns(TRUE) /\ UNCHANGED <<mirror, log>>
       ELSE \E ok \in BOOLEAN :
            LET backup_name == BackupName(i - 1)
                backup_url == BackupUrl(proj.paths[i])
                r == GitRemoteAdd(repo.remotes, backup_name, backup_url, ok)
            IN  /\ log' = Logged("git remote add", backup_name, r.done)
                /\ SetRemotes(r.remotes)
                /\ IF r.done
                   THEN /\ i' = i + 1
                        /\ UNCHANGED <<pc, current_remotes, todo, setup_ok>>
                   ELSE SetupReturns(FALSE)
    /\ UNCHANGED frameSetup

Provision == SetupEnter \/ MkCacheDir \/ GitInit \/ GitConfig
Reconcile == SetupInspectOrigin \/ SetupOrigin \/ SetupInspectBackups
                \/ SetupRemove \/ SetupAdd

(* ------------- Remote Reconciler, backup/operations.py ---------------- *)
\* return from setup_git_remotes of backup/operations.py
OpsSetupReturns(b) ==
    /\ setup_ok' = b
    /\ current_remotes' = NoRemotes /\ todo' = << >> /\ i' = 1
    /\ pc' = "idle"

\* operations.py, lines 33-37: the existence test.
OpsSetupEnter ==
    /\ pc = "ops_enter"
    /\ pc' = IF repo.git THEN "ops_inspect" ELSE "mk_dir"
    /\ UNCHANGED <<mirror, setupLocals, setup_ok, log, frameSetup>>

\* operations.py, line 41: current_remotes = get_all_git_remotes(repo_path)
OpsSetupInspect ==
    /\ pc = "ops_inspect"
    /\ \E o \in InspectionOutcomes(repo.remotes) :
        /\ current_remotes' = get_all_git_remotes(repo.remotes, o)
        /\ log' = Logged("git remote", "", InspectionOk(o))
    /\ pc' = "ops_origin"
    /\ UNCHANGED <<mirror, todo, i, setup_ok, frameSetup>>

\* operations.py, lines 44-50: set-url when origin was seen with another
\* URL, nothing when it was seen with the expected one, add otherwise.
OpsSetupOrigin ==
    /\ pc = "ops_origin"
    /\ LET origin_url == OriginUrl(proj.id)
           seen == "origin" \in DOMAIN current_remotes
       IN  IF seen /\ current_remotes["origin"] = origin_url
           THEN /\ pc' = "ops_backup"
                /\ UNCHANGED <<mirror, setupLocals, setup_ok, log>>
           ELSE \E ok \in BOOLEAN :
                LET r == IF seen
                         THEN GitRemoteSetUrl(repo.remotes, "origin", origin_url, ok)
                         ELSE GitRemoteAdd(repo.remotes, "origin", origin_url, ok)
                IN  /\ log' = Logged(IF seen THEN "git remote set-url"
                                     ELSE "git remote add", "origin", r.done)
                    /\ SetRemotes(r.remotes)
                    /\ IF r.done
                       THEN pc' = "ops_backup" /\ UNCHANGED <<setupLocals, setup_ok>>
                       ELSE OpsSetupReturns(FALSE)
    /\ UNCHANGED frameSetup

\* operations.py, lines 53-65: backup<i> patched in place, one path per step.
OpsSetupBackup ==
    /\ pc = "ops_backup"
    /\ IF i > Len(proj.paths)
       THEN OpsSetupReturns(TRUE) /\ UNCHANGED <<mirror, log>>
       ELSE LET backup_name == BackupName(i - 1)
                backup_url == BackupUrl(proj.paths[i])
                seen == backup_name \in DOMAIN current_remotes
            IN  IF seen /\ current_remotes[backup_name] = backup_url
                THEN /\ i' = i + 1
                     /\ UNCHANGED <<mirror, log, pc, current_remotes, todo, setup_ok>>
                ELSE \E ok \in BOOLEAN :
                     LET r == IF seen
                              THEN GitRemoteSetUrl(repo.remotes, backup_name,
                                                   backup_url, ok)
                              ELSE GitRemoteAdd(repo.remotes, backup_name,
                                                backup_url, ok)
                     IN  /\ log' = Logged(IF seen THEN "git remote set-url"
                                          ELSE "git remote add", backup_name, r.done)
                         /\ SetRemotes(r.remotes)
                         /\ IF r.done
                            THEN /\ i' = i + 1
                                 /\ UNCHANGED <<pc, current_remotes, todo, setup_ok>>
                            ELSE OpsSetupReturns(FALSE)
    /\ UNCHANGED frameSetup

OpsReconcile == OpsSetupEnter \/ OpsSetupInspect \/ OpsSetupOrigin \/ OpsSetupBackup

\* backup.py, lines 164-195, every command succeeding: origin set, every
\* remote named backup* removed, backup<i> added for every path.
ModuleOutcome(start, overleaf_id, gitlab_paths) ==
    LET withOrigin == Put(start, "origin", OriginUrl(overleaf_id))
        kept == Restrict(withOrigin,
                         {n \in DOMAIN withOrigin : ~StartsWith(n, "backup")})
        added == {BackupName(j - 1) : j \in 1..Len(gitlab_paths)}
    IN  [n \in DOMAIN kept \cup added |->
            IF n \in added
            THEN BackupUrl(gitlab_paths[CHOOSE j \in 1..Len(gitlab_paths) :
                                            n = BackupName(j - 1)])
            ELSE kept[n]]

(* ---------------------------- Config Validator ------------------------- *)
\* config_valid testing only that every backup<i> is present.
config_valid_NoUrlCheck(remotes, overleaf_id, gitlab_paths) ==
    LET expected_origin == OriginUrl(overleaf_id)
    IN  IF "origin" \notin DOMAIN remotes THEN FALSE
        ELSE IF remotes["origin"] # expected_origin THEN FALSE
        ELSE \A j \in 1..Len(gitlab_paths) : BackupName(j - 1) \in DOMAIN remotes

\* check_cache_overleaf_git_config_valid, lines 109-147, on the inspected remotes.
config_valid(remotes, overleaf_id, gitlab_paths) ==
    LET expected_origin == OriginUrl(overleaf_id)
    IN  IF "origin" \notin DOMAIN remotes THEN FALSE
        ELSE IF remotes["origin"] # expected_origin THEN FALSE
        ELSE \A j \in 1..Len(gitlab_paths) :
                /\ BackupName(j - 1) \in DOMAIN remotes
                /\ remotes[BackupName(j - 1)] = BackupUrl(gitlab_paths[j])

\* check_cache_overleaf_git_config_valid: existence test, one inspection, verdict.
ValidatorCheck ==
    /\ pc = "val_check"
    /\ IF ~repo.git
       THEN valid' = FALSE /\ UNCHANGED log
       ELSE \E o \in InspectionOutcomes(repo.remotes) :
            /\ valid' = config_valid(get_all_git_remotes(repo.remotes, o),
                                     proj.id, proj.paths)
            /\ log' = Logged("git remote", "", InspectionOk(o))
    /\ pc' = IF entry = "check_cache_overleaf_git_config_valid"
             THEN "idle" ELSE "bop_valid_ret"
    /\ UNCHANGED <<inputs, mirror, net, entry, proj, setupLocals, syncLocals,
                   setup_ok, sync_ok, bop_ok, bulkVars, called, prev, calls>>

(* ------------------------------ Sync Engine ---------------------------- *)
frameSync == <<inputs, mirror, entry, proj, setupLocals, setup_ok, valid, bop_ok,
               bulkVars, called, prev, calls>>

\* The network as one sync finds it: what origin serves (branch main, branch
\* master only, no such branch, or nothing: unreachable), and the other
\* remotes that are unreachable.
Nets(remotes) ==
    [origin : {"main", "master", "nobranch", "down"},
     down : SUBSET (DOMAIN remotes \ {"origin"})]

\* return from sync_repositories
SyncReturns(b) ==
    /\ sync_ok' = b
    /\ backup_remotes' = << >> /\ current_branch' = "" /\ k' = 1
    /\ pc' = IF entry = "sync_repositories" THEN "idle" ELSE "bop_sync_ret"

\* lines 211-215
SyncEnter ==
    /\ pc = "sync_enter"
    /\ pulled' = FALSE /\ branch' = ""
    /\ IF ~repo.git
       THEN SyncReturns(FALSE) /\ net' = NoNet
       ELSE /\ net' \in Nets(repo.remotes)
            /\ pc' = "sync_update"
            /\ UNCHANGED <<sync_ok, backup_remotes, current_branch, k>>
    /\ UNCHANGED <<log, frameSync>>

\* lines 221-224: git remote update fetches from every remote of the Mirror
\* and fails when one of them cannot be fetched; check=True, caught at 302.
SyncRemoteUpdate ==
    /\ pc = "sync_update"
    /\ LET ok == /\ net.down = {}
                 /\ "origin" \in DOMAIN repo.remotes => net.origin # "down"
       IN  /\ log' = Logged("git remote update", "", ok)
           /\ IF ok
              THEN /\ pc' = "sync_pull"
                   /\ branch' = "main"
                   /\ UNCHANGED <<sync_ok, backup_remotes, current_branch, k>>
              ELSE SyncReturns(FALSE) /\ UNCHANGED branch
    /\ UNCHANGED <<net, pulled, frameSync>>

\* SyncPull without the test of pulled after the loop (lines 244-246).
SyncPull_NoPulledTest ==
    /\ pc = "sync_pull"
    /\ LET ok == "origin" \in DOMAIN repo.remotes /\ net.origin = branch
       IN  /\ log' = LoggedRef("git pull", "origin", branch, ok)
           /\ IF ok
              THEN /\ pulled' = TRUE
                   /\ pc' = "sync_fetch"
                   /\ UNCHANGED <<branch, sync_ok, backup_remotes, current_branch, k>>
              ELSE IF branch = "main"
              THEN /\ branch' = "master"
                   /\ UNCHANGED <<pc, pulled, sync_ok, backup_remotes, current_branch, k>>
              ELSE /\ pc' = "sync_fetch"
                   /\ UNCHANGED <<pulled, branch, sync_ok, backup_remotes,
                                  current_branch, k>>
    /\ UNCHANGED <<net, frameSync>>

\* SyncPull going from a successful pull straight to the fan-out.
SyncPull_SkipTagFetch ==
    /\ pc = "sync_pull"
    /\ LET ok == "origin" \in DOMAIN repo.remotes /\ net.origin = branch
       IN  /\ log' = LoggedRef("git pull", "origin", branch, ok)
           /\ IF ok
              THEN /\ pulled' = TRUE
                   /\ pc' = "sync_list"
                   /\ UNCHANGED <<branch, sync_ok, backup_remotes, current_branch, k>>
              ELSE IF branch = "main"
              THEN /\ branch' = "master"
                   /\ UNCHANGED <<pc, pulled, sync_ok, backup_remotes, current_branch, k>>
              ELSE SyncReturns(FALSE) /\ UNCHANGED <<pulled, branch>>
    /\ UNCHANGED <<net, frameSync>>

\* SyncPull without the break after a successful pull of main.
SyncPull_NoBreak ==
    /\ pc = "sync_pull"
    /\ LET ok == "origin" \in DOMAIN repo.remotes /\ net.origin = branch
       IN  /\ log' = LoggedRef("git pull", "origin", branch, ok)
           /\ IF branch = "main"
              THEN /\ branch' = "master"
                   /\ pulled' = ok
                   /\ UNCHANGED <<pc, sync_ok, backup_remotes, current_branch, k>>
              ELSE IF ok \/ pulled
              THEN /\ pulled' = TRUE
                   /\ pc' = "sync_fetch"
                   /\ UNCHANGED <<branch, sync_ok, backup_remotes, current_branch, k>>
              ELSE SyncReturns(FALSE) /\ UNCHANGED <<pulled, branch>>
    /\ UNCHANGED <<net, frameSync>>

\* lines 230-246: git pull origin <branch> for branch in ["main", "master"]
SyncPull ==
    /\ pc = "sync_pull"
    /\ LET ok == "origin" \in DOMAIN repo.remotes /\ net.origin = branch
       IN  /\ log' = LoggedRef("git pull", "origin", branch, ok)
           /\ IF ok
              THEN /\ pulled' = TRUE
                   /\ pc' = "sync_fetch"
                   /\ UNCHANGED <<branch, sync_ok, backup_remotes, current_branch, k>>
              ELSE IF branch = "main"
              THEN /\ branch' = "master"
                   /\ UNCHANGED <<pc, pulled, sync_ok, backup_remotes, current_branch, k>>
              ELSE SyncReturns(FALSE) /\ UNCHANGED <<pulled, branch>>
    /\ UNCHANGED <<net, frameSync>>

\* SyncFetchTags with the failure of the fetch reaching the handler of line 302.
SyncFetchTags_Fatal ==
    /\ pc = "sync_fetch"
    /\ \E ok \in BOOLEAN :
        /\ log' = LoggedRef("git fetch", "origin", "--tags", ok)
        /\ IF ok
           THEN pc' = "sync_list" /\ UNCHANGED <<syncLocals, sync_ok>>
           ELSE SyncReturns(FALSE) /\ UNCHANGED <<pulled, branch>>
    /\ UNCHANGED <<net, frameSync>>

\* lines 251-257: git fetch origin --tags; a failure is only printed.
SyncFetchTags ==
    /\ pc = "sync_fetch"
    /\ \E ok \in BOOLEAN : log' = LoggedRef("git fetch", "origin", "--tags", ok)
    /\ pc' = "sync_list"
    /\ UNCHANGED <<net, syncLocals, sync_ok, frameSync>>

Reverse(seq) == [n \in 1..Len(seq) |-> seq[Len(seq) + 1 - n]]

\* SortedBackupRemotes in descending order of name.
SortedBackupRemotes_Descending(remotes) ==
    Reverse(Sorted({name \in DOMAIN remotes : StartsWith(name, "backup")}))

\* sorted(name for name in current_remotes if name.startswith('backup'))
SortedBackupRemotes(remotes) ==
    Sorted({name \in DOMAIN remotes : StartsWith(name, "backup")})

\* SyncListBackups returning False when there is no backup remote.
SyncListBackups_EmptyFails ==
    /\ pc = "sync_list"
    /\ \E o \in InspectionOutcomes(repo.remotes) :
        LET names == SortedBackupRemotes(get_all_git_remotes(repo.remotes, o))
        IN  /\ log' = Logged("git remote", "", InspectionOk(o))
            /\ IF names = << >>
               THEN SyncReturns(FALSE)
               ELSE /\ backup_remotes' = names
                    /\ k' = 1
                    /\ pc' = "sync_revparse"
                    /\ UNCHANGED <<sync_ok, current_branch>>
    /\ UNCHANGED <<net, pulled, branch, frameSync>>

\* lines 260-265
SyncListBackups ==
    /\ pc = "sync_list"
    /\ \E o \in InspectionOutcomes(repo.remotes) :
        LET names == SortedBackupRemotes(get_all_git_remotes(repo.remotes, o))
        IN  /\ log' = Logged("git remote", "", InspectionOk(o))
            /\ IF names = << >>
               THEN SyncReturns(TRUE)
               ELSE /\ backup_remotes' = names
                    /\ k' = 1
                    /\ pc' = "sync_revparse"
                    /\ UNCHANGED <<sync_ok, current_branch>>
    /\ UNCHANGED <<net, pulled, branch, frameSync>>

\* SyncRevParse taking the branch that was pulled for the branch to push.
SyncRevParse_PulledBranch ==
    /\ pc = "sync_revparse"
    /\ \E ok \in BOOLEAN :
        /\ current_branch' = branch
        /\ log' = Logged("git rev-parse", "HEAD", ok)
    /\ pc' = "sync_push_branch"
    /\ UNCHANGED <<net, pulled, branch, backup_remotes, k, sync_ok, frameSync>>

\* lines 268-274: git rev-parse --abbrev-ref HEAD, "main" when it fails.
SyncRevParse ==
    /\ pc = "sync_revparse"
    /\ \E ok \in BOOLEAN :
        /\ current_branch' = IF ok THEN repo.head ELSE "main"
        /\ log' = Logged("git rev-parse", "HEAD", ok)
    /\ pc' = "sync_push_branch"
    /\ UNCHANGED <<net, pulled, branch, backup_remotes, k, sync_ok, frameSync>>

\* SyncPushBranch pushing the branch again to a remote that refused it.
SyncPushBranch_Retry ==
    /\ pc = "sync_push_branch"
    /\ IF k > Len(backup_remotes)
       THEN SyncReturns(TRUE) /\ UNCHANGED log
       ELSE \E ok \in BOOLEAN :
            LET remote == backup_remotes[k]
                done == ok /\ remote \notin net.down
            IN  /\ log' = LoggedRef("git push", remote, current_branch, done)
                /\ IF done
                   THEN pc' = "sync_push_tags" /\ UNCHANGED k
                   ELSE IF \E n \in 1..Len(log) :
                                log[n].cmd = "git push" /\ log[n].arg = remote
                   THEN k' = k + 1 /\ UNCHANGED pc
                   ELSE UNCHANGED <<k, pc>>
                /\ UNCHANGED <<sync_ok, backup_remotes, current_branch>>
    /\ UNCHANGED <<net, pulled, branch, frameSync>>

\* SyncPushBranch going on to the tag push whatever the branch push did.
SyncPushBranch_TagsAnyway ==
    /\ pc = "sync_push_branch"
    /\ IF k > Len(backup_remotes)
       THEN SyncReturns(TRUE) /\ UNCHANGED log
       ELSE \E ok \in BOOLEAN :
            LET remote == backup_remotes[k]
                done == ok /\ remote \notin net.down
            IN  /\ log' = LoggedRef("git push", remote, current_branch, done)
                /\ pc' = "sync_push_tags" /\ UNCHANGED k
                /\ UNCHANGED <<sync_ok, backup_remotes, current_branch>>
    /\ UNCHANGED <<net, pulled, branch, frameSync>>

\* lines 277-286 and 294-300: git push <remote> <current_branch>
SyncPushBranch ==
    /\ pc = "sync_push_branch"
    /\ IF k > Len(backup_remotes)
       THEN SyncReturns(TRUE) /\ UNCHANGED log
       ELSE \E ok \in BOOLEAN :
            LET remote == backup_remotes[k]
                done == ok /\ remote \notin net.down
            IN  /\ log' = LoggedRef("git push", remote, current_branch, done)
                /\ IF done
                   THEN pc' = "sync_push_tags" /\ UNCHANGED k
                   ELSE k' = k + 1 /\ UNCHANGED pc
                /\ UNCHANGED <<sync_ok, backup_remotes, current_branch>>
    /\ UNCHANGED <<net, pulled, branch, frameSync>>

\* lines 288-297: git push <remote> --tags
SyncPushTags ==
    /\ pc = "sync_push_tags"
    /\ \E ok \in BOOLEAN :
        log' = LoggedRef("git push", backup_remotes[k], "--tags",
                         ok /\ backup_remotes[k] \notin net.down)
    /\ k' = k + 1
    /\ pc' = "sync_push_branch"
    /\ UNCHANGED <<net, pulled, branch, backup_remotes, current_branch, sync_ok,
                   frameSync>>

Sync == SyncEnter \/ SyncRemoteUpdate \/ SyncPull \/ SyncFetchTags
            \/ SyncListBackups \/ SyncRevParse \/ SyncPushBranch \/ SyncPushTags

(* --------------------------- Backup Orchestrator ----------------------- *)
frameBop == <<inputs, net, entry, proj, setupLocals, syncLocals, setup_ok, valid,
              sync_ok, bulkVars, prev, calls>>

\* return from backup_overleaf_project
BopReturns(b) ==
    /\ bop_ok' = b
    /\ pc' = CASE entry = "backup_all_projects" -> "bulk_ret"
               [] entry = "backup_single_project" -> "single_ret"
               [] OTHER -> "idle"

\* line 321: the call of setup_git_remotes
BopCallSetup ==
    /\ pc = "bop_setup"
    /\ called' = Append(called, "setup_git_remotes")
    /\ log' = << >>
    /\ pc' = "sgr_enter"
    /\ UNCHANGED <<mirror, bop_ok, frameBop>>

\* BopAfterSetup calling the Validator whatever setup_git_remotes returned.
BopAfterSetup_NoGate ==
    /\ pc = "bop_setup_ret"
    /\ called' = Append(called, "check_cache_overleaf_git_config_valid")
    /\ log' = << >>
    /\ pc' = "val_check"
    /\ UNCHANGED bop_ok
    /\ UNCHANGED <<mirror, frameBop>>

\* lines 321-326: return False, or the call of the Validator
BopAfterSetup ==
    /\ pc = "bop_setup_ret"
    /\ IF ~setup_ok
       THEN BopReturns(FALSE) /\ UNCHANGED <<called, log>>
       ELSE /\ called' = Append(called, "check_cache_overleaf_git_config_valid")
            /\ log' = << >>
            /\ pc' = "val_check"
            /\ UNCHANGED bop_ok
    /\ UNCHANGED <<mirror, frameBop>>

\* BopAfterValidate without the gate: sync_repositories is called either way.
BopAfterValidate_NoGate ==
    /\ pc = "bop_valid_ret"
    /\ called' = Append(called, "sync_repositories")
    /\ log' = << >>
    /\ pc' = "sync_enter"
    /\ UNCHANGED bop_ok
    /\ UNCHANGED <<mirror, frameBop>>

\* lines 326-331: return False, or the call of sync_repositories
BopAfterValidate ==
    /\ pc = "bop_valid_ret"
    /\ IF ~valid
       THEN BopReturns(FALSE) /\ UNCHANGED <<called, log>>
       ELSE /\ called' = Append(called, "sync_repositories")
            /\ log' = << >>
            /\ pc' = "sync_enter"
            /\ UNCHANGED bop_ok
    /\ UNCHANGED <<mirror, frameBop>>

\* BopAfterSync testing the clean flag before the verdict of the sync.
BopAfterSync_CleanFirst ==
    /\ pc = "bop_sync_ret"
    /\ IF clean THEN pc' = "bop_clean" /\ UNCHANGED bop_ok
       ELSE IF ~sync_ok THEN BopReturns(FALSE)
       ELSE BopReturns(TRUE)
    /\ UNCHANGED <<mirror, log, called, frameBop>>

\* lines 331-341 without the rm: return False, return True, or go on to clean
BopAfterSync ==
    /\ pc = "bop_sync_ret"
    /\ IF ~sync_ok THEN BopReturns(FALSE)
       ELSE IF clean THEN pc' = "bop_clean" /\ UNCHANGED bop_ok
       ELSE BopReturns(TRUE)
    /\ UNCHANGED <<mirror, log, called, frameBop>>

\* BopClean removing the cache directory instead of the project's Mirror.
BopClean_WholeCache ==
    /\ pc = "bop_clean"
    /\ \E ok \in BOOLEAN :
        /\ log' = Logged("rm -rfd", "", ok)
        /\ IF ok
           THEN /\ mirror' = [id \in DOMAIN mirror |-> NoMirror]
                /\ BopReturns(TRUE)
           ELSE /\ pc' = "raised"
                /\ UNCHANGED <<mirror, bop_ok>>
    /\ UNCHANGED <<called, frameBop>>

\* line 340: rm -rfd <repo_path>, check=True, outside every try block.
BopClean ==
    /\ pc = "bop_clean"
    /\ \E ok \in BOOLEAN :
        /\ log' = Logged("rm -rfd", "", ok)
        /\ IF ok
           THEN /\ mirror' = [mirror EXCEPT ![proj.id] = NoMirror]
                /\ BopReturns(TRUE)
           ELSE /\ pc' = "raised"
                /\ UNCHANGED <<mirror, bop_ok>>
    /\ UNCHANGED <<called, frameBop>>

Workflow == BopCallSetup \/ BopAfterSetup \/ BopAfterValidate \/ BopAfterSync
                \/ BopClean

(* ------------------------------ bulk mode ------------------------------ *)
frameBulk == <<config, mirror, entry, setupLocals, backup_remotes,
               current_branch, k, prev>>

\* main, lines 121-122, and backup_all_projects, lines 72-73: a new process.
MainBackupAll ==
    /\ pc \in {"idle", "exited", "raised"}
    /\ entry = "backup_all_projects"
    /\ calls < MaxRuns
    /\ calls' = calls + 1
    /\ clean' \in BOOLEAN
    /\ success_count' = 0
    /\ total_count' = Len(config)
    /\ idx' = 1
    /\ results' = << >> /\ started' = << >>
    /\ current_remotes' = NoRemotes /\ todo' = << >> /\ i' = 1
    /\ pulled' = FALSE /\ branch' = "" /\ backup_remotes' = << >>
    /\ current_branch' = "" /\ k' = 1
    /\ log' = << >> /\ called' = << >>
    /\ net' = NoNet
    /\ setup_ok' = FALSE /\ valid' = FALSE /\ sync_ok' = FALSE /\ bop_ok' = FALSE
    /\ pc' = "bulk_loop"
    /\ UNCHANGED <<config, mirror, entry, proj, bulk_ok, single_ok, exit_status, prev>>

\* lines 75-78 (the call) and 83-84 (after the loop)
BulkLoop ==
    /\ pc = "bulk_loop"
    /\ IF idx <= Len(config)
       THEN /\ proj' = config[idx]
            /\ started' = Append(started, config[idx].id)
            /\ log' = << >>
            /\ called' = << >>
            /\ pc' = "bop_setup"
            /\ UNCHANGED bulk_ok
       ELSE /\ bulk_ok' = (success_count = total_count)
            /\ pc' = "bulk_done"
            /\ UNCHANGED <<proj, log, called, started>>
    /\ UNCHANGED <<clean, net, pulled, branch, setup_ok, valid, sync_ok, bop_ok, idx,
                   success_count, total_count, exit_status, results, calls, single_ok,
                   frameBulk>>

\* BulkAfterProject counting every project, whatever its verdict.
BulkAfterProject_CountAll ==
    /\ pc = "bulk_ret"
    /\ success_count' = success_count + 1
    /\ results' = Append(results, bop_ok)
    /\ idx' = idx + 1
    /\ log' = << >> /\ called' = << >> /\ pulled' = FALSE /\ branch' = ""
    /\ net' = NoNet
    /\ setup_ok' = FALSE /\ valid' = FALSE /\ sync_ok' = FALSE /\ bop_ok' = FALSE
    /\ pc' = "bulk_loop"
    /\ UNCHANGED <<clean, proj, total_count, bulk_ok, single_ok, exit_status, started,
                   calls, frameBulk>>

\* lines 78-81: count the verdict, next project (the workflow's frame is gone)
BulkAfterProject ==
    /\ pc = "bulk_ret"
    /\ success_count' = IF bop_ok THEN success_count + 1 ELSE success_count
    /\ results' = Append(results, bop_ok)
    /\ idx' = idx + 1
    /\ log' = << >> /\ called' = << >> /\ pulled' = FALSE /\ branch' = ""
    /\ net' = NoNet
    /\ setup_ok' = FALSE /\ valid' = FALSE /\ sync_ok' = FALSE /\ bop_ok' = FALSE
    /\ pc' = "bulk_loop"
    /\ UNCHANGED <<clean, proj, total_count, bulk_ok, single_ok, exit_status, started,
                   calls, frameBulk>>

\* main, line 123: exit(0 if success else 1)
MainExit ==
    /\ pc = "bulk_done"
    /\ exit_status' = IF bulk_ok THEN 0 ELSE 1
    /\ pc' = "exited"
    /\ UNCHANGED <<clean, net, proj, pulled, branch, setup_ok, valid, sync_ok, bop_ok,
                   idx, success_count, total_count, bulk_ok, single_ok, results, started,
                   log, called, calls, frameBulk>>

Bulk == MainBackupAll \/ BulkLoop \/ BulkAfterProject \/ MainExit

(* ----------------- backup_overleaf_project called directly ------------- *)
CallBackupOverleafProject ==
    /\ pc \in {"idle", "raised"}
    /\ entry = "backup_overleaf_project"
    /\ calls < MaxRuns
    /\ calls' = calls + 1
    /\ clean' \in BOOLEAN
    /\ \E paths \in PathLists(0, MaxPaths) :
        proj' = [id |-> proj.id, paths |-> paths]
    /\ current_remotes' = NoRemotes /\ todo' = << >> /\ i' = 1
    /\ pulled' = FALSE /\ branch' = "" /\ backup_remotes' = << >>
    /\ current_branch' = "" /\ k' = 1
    /\ log' = << >> /\ called' = << >>
    /\ net' = NoNet
    /\ setup_ok' = FALSE /\ valid' = FALSE /\ sync_ok' = FALSE /\ bop_ok' = FALSE
    /\ pc' = "bop_setup"
    /\ UNCHANGED <<config, mirror, entry, bulkVars, prev>>

InitWorkflow ==
    /\ InitIdle
    /\ config = << >> /\ clean = FALSE
    /\ entry = "backup_overleaf_project"
    /\ proj = [id |-> "P1", paths |-> << >>]
    /\ \E m \in InitMirrors("P1") :
        mirror = [id \in ProjectIds |-> IF id = "P1" THEN m ELSE NoMirror]

NextWorkflow == CallBackupOverleafProject \/ Workflow \/ Provision \/ Reconcile
                    \/ ValidatorCheck \/ Sync

\* backup_overleaf_project called MaxRuns times on one Mirror, from any
\* remote set and with any list of paths.
SpecWorkflow == InitWorkflow /\ [][NextWorkflow]_vars

\* The same, every external command returning: a step that can be taken is
\* taken (subprocess.run blocks until the command ends).
SpecWorkflowFair == SpecWorkflow /\ WF_vars(NextWorkflow)

(* --------------------------- single-project mode ----------------------- *)
IsConfigured(id) == \E j \in 1..Len(config) : config[j].id = id

\* available_projects[overleaf_id], split into the list of paths
PathsOf(id) == config[CHOOSE j \in 1..Len(config) : config[j].id = id].paths

\* main, lines 117-118, and backup_single_project, lines 59-69 up to the call
\* of the workflow: a new process, asked for one id.
MainBackupSingle ==
    /\ pc \in {"idle", "exited", "raised"}
    /\ entry = "backup_single_project"
    /\ calls < MaxRuns
    /\ calls' = calls + 1
    /\ clean' \in BOOLEAN
    /\ \E overleaf_id \in ProjectIds :
        IF ~IsConfigured(overleaf_id)
        THEN /\ proj' = [id |-> overleaf_id, paths |-> << >>]
             /\ single_ok' = FALSE
             /\ pc' = "single_done"
        ELSE /\ proj' = [id |-> overleaf_id, paths |-> PathsOf(overleaf_id)]
             /\ single_ok' = FALSE
             /\ pc' = "bop_setup"
    /\ current_remotes' = NoRemotes /\ todo' = << >> /\ i' = 1
    /\ pulled' = FALSE /\ branch' = "" /\ backup_remotes' = << >>
    /\ current_branch' = "" /\ k' = 1
    /\ log' = << >> /\ called' = << >>
    /\ net' = NoNet
    /\ setup_ok' = FALSE /\ valid' = FALSE /\ sync_ok' = FALSE /\ bop_ok' = FALSE
    /\ UNCHANGED <<config, mirror, entry, bulk_ok, idx, success_count, total_count,
                   exit_status, results, started, prev>>

\* SingleAfterProject returning True whatever the workflow returned.
SingleAfterProject_AlwaysTrue ==
    /\ pc = "single_ret"
    /\ single_ok' = TRUE
    /\ pc' = "single_done"
    /\ UNCHANGED <<inputs, mirror, net, entry, proj, setupLocals, syncLocals, setup_ok,
                   valid, sync_ok, bop_ok, bulk_ok, idx, success_count, total_count,
                   exit_status, results, started, log, called, prev, calls>>

\* line 69: return backup_overleaf_project(...)
SingleAfterProject ==
    /\ pc = "single_ret"
    /\ single_ok' = bop_ok
    /\ pc' = "single_done"
    /\ UNCHANGED <<inputs, mirror, net, entry, proj, setupLocals, syncLocals, setup_ok,
                   valid, sync_ok, bop_ok, bulk_ok, idx, success_count, total_count,
                   exit_status, results, started, log, called, prev, calls>>

\* main, line 119: exit(0 if success else 1)
MainExitSingle ==
    /\ pc = "single_done"
    /\ exit_status' = IF single_ok THEN 0 ELSE 1
    /\ pc' = "exited"
    /\ UNCHANGED <<inputs, mirror, net, entry, proj, setupLocals, syncLocals, setup_ok,
                   valid, sync_ok, bop_ok, bulk_ok, single_ok, idx, success_count,
                   total_count, results, started, log, called, prev, calls>>

Single == MainBackupSingle \/ SingleAfterProject \/ MainExitSingle

(* ------------------ get_all_git_remotes called directly ---------------- *)
\* The call, on the path of an existing Mirror as every caller makes it.
CallGetAllGitRemotes ==
    /\ pc = "idle"
    /\ entry = "get_all_git_remotes"
    /\ calls < MaxCalls
    /\ calls' = calls + 1
    /\ log' = << >>
    /\ current_remotes' = NoRemotes /\ todo' = << >>
    /\ pc' = "gar_list"
    /\ UNCHANGED <<inputs, mirror, net, entry, proj, i, syncLocals, setup_ok, valid,
                   sync_ok, bop_ok, bulkVars, called, prev>>

\* lines 68-69 on a path that is no directory: subprocess.run(cwd=repo_path)
\* raises FileNotFoundError, which line 86 does not catch.
InspectMissing ==
    /\ pc = "gar_list"
    /\ ~repo.dir
    /\ pc' = "raised"
    /\ UNCHANGED <<inputs, mirror, net, entry, proj, setupLocals, syncLocals, setup_ok,
                   valid, sync_ok, bop_ok, bulkVars, log, called, prev, calls>>

\* lines 66-75 and 86-87: git remote; {} when it fails.
InspectList ==
    /\ pc = "gar_list"
    /\ repo.dir
    /\ \E ok \in BOOLEAN :
        /\ log' = Logged("git remote", "", ok)
        /\ IF ok
           THEN /\ todo' = Sorted({n \in DOMAIN repo.remotes : n # ""})
                /\ pc' = "gar_resolve"
           ELSE /\ todo' = << >>
                /\ pc' = "idle"
        /\ current_remotes' = NoRemotes
    /\ UNCHANGED <<inputs, mirror, net, entry, proj, i, syncLocals, setup_ok, valid,
                   sync_ok, bop_ok, bulkVars, called, prev, calls>>

\* InspectResolve keeping a name whose URL did not resolve, with no URL.
InspectResolve_KeepFailed ==
    /\ pc = "gar_resolve"
    /\ IF todo = << >>
       THEN pc' = "idle" /\ UNCHANGED <<current_remotes, todo, log>>
       ELSE \E ok \in BOOLEAN :
            LET remote_name == Head(todo)
                url == IF ok THEN repo.remotes[remote_name] ELSE ""
            IN  /\ log' = Logged("git remote get-url", remote_name, ok)
                /\ current_remotes' = Put(current_remotes, remote_name, url)
                /\ todo' = Tail(todo)
                /\ UNCHANGED pc
    /\ UNCHANGED <<inputs, mirror, net, entry, proj, i, syncLocals, setup_ok, valid,
                   sync_ok, bop_ok, bulkVars, called, prev, calls>>

\* InspectResolve removing from the Mirror a remote whose URL did not resolve.
InspectResolve_PruneFailed ==
    /\ pc = "gar_resolve"
    /\ IF todo = << >>
       THEN pc' = "idle" /\ UNCHANGED <<mirror, current_remotes, todo, log>>
       ELSE \E ok \in BOOLEAN :
            LET remote_name == Head(todo)
                url == IF ok THEN repo.remotes[remote_name] ELSE ""
            IN  /\ log' = Logged("git remote get-url", remote_name, ok)
                /\ current_remotes' = IF url # ""
                                      THEN Put(current_remotes, remote_name, url)
                                      ELSE current_remotes
                /\ IF url # "" THEN UNCHANGED mirror
                   ELSE SetRemotes(Drop(repo.remotes, remote_name))
                /\ todo' = Tail(todo)
                /\ UNCHANGED pc
    /\ UNCHANGED <<inputs, net, entry, proj, i, syncLocals, setup_ok, valid,
                   sync_ok, bop_ok, bulkVars, called, prev, calls>>

\* lines 79-85 with get_git_remote_url, lines 49-59: one listed name per step.
InspectResolve ==
    /\ pc = "gar_resolve"
    /\ IF todo = << >>
       THEN pc' = "idle" /\ UNCHANGED <<current_remotes, todo, log>>
       ELSE \E ok \in BOOLEAN :
            LET remote_name == Head(todo)
                url == IF ok THEN repo.remotes[remote_name] ELSE ""
            IN  /\ log' = Logged("git remote get-url", remote_name, ok)
                /\ current_remotes' = IF url # ""
                                      THEN Put(current_remotes, remote_name, url)
                                      ELSE current_remotes
                /\ todo' = Tail(todo)
                /\ UNCHANGED pc
    /\ UNCHANGED <<inputs, mirror, net, entry, proj, i, syncLocals, setup_ok, valid,
                   sync_ok, bop_ok, bulkVars, called, prev, calls>>

InitInspector ==
    /\ InitIdle
    /\ config = << >> /\ clean = FALSE
    /\ entry = "get_all_git_remotes"
    /\ proj = [id |-> "P1", paths |-> << >>]
    /\ \E m \in InitMirrors("P1") \ {NoMirror} :
        mirror = [id \in ProjectIds |-> IF id = "P1" THEN m ELSE NoMirror]

NextInspector == CallGetAllGitRemotes \/ InspectList \/ InspectResolve

\* get_all_git_remotes called MaxCalls times on one Mirror, any remote set.
SpecInspector == InitInspector /\ [][NextInspector]_vars

(* --------------- mk_cache_overleaf_git_dir called directly ------------- *)
CallMkCacheGitDir ==
    /\ pc \in {"idle", "raised"}
    /\ entry = "mk_cache_overleaf_git_dir"
    /\ calls < MaxCalls
    /\ calls' = calls + 1
    /\ log' = << >>
    /\ pc' = "mk_enter"
    /\ UNCHANGED <<inputs, mirror, net, entry, proj, setupLocals, syncLocals,
                   setup_ok, valid, sync_ok, bop_ok, bulkVars, called, prev>>

InitProvisioner ==
    /\ InitIdle
    /\ config = << >> /\ clean = FALSE
    /\ entry = "mk_cache_overleaf_git_dir"
    /\ proj = [id |-> "P1", paths |-> << >>]
    /\ \E m \in InitMirrors("P1") :
        mirror = [id \in ProjectIds |-> IF id = "P1" THEN m ELSE NoMirror]

NextProvisioner == CallMkCacheGitDir \/ MkEnter \/ MkCacheDir \/ GitInit \/ GitConfig

\* mk_cache_overleaf_git_dir called MaxCalls times for one project, a call
\* that raised being followed by the next.
SpecProvisioner == InitProvisioner /\ [][NextProvisioner]_vars

(* ------------------- setup_git_remotes called directly ----------------- *)
Snapshot(fn, ok) ==
    [fn |-> fn, proj |-> proj, remotes |-> repo.remotes, ok |-> ok, allOk |-> AllOk(log)]

CallSetupGitRemotes ==
    /\ pc \in {"idle", "raised"}
    /\ entry = "setup_git_remotes"
    /\ calls < MaxCalls
    /\ \E paths \in PathLists(0, MaxPaths) :
        proj' = [id |-> proj.id, paths |-> paths]
    /\ prev' = IF calls > 0 /\ pc = "idle"
               THEN Snapshot("setup_git_remotes", setup_ok) ELSE NoPrev
    /\ calls' = calls + 1
    /\ log' = << >>
    /\ setup_ok' = FALSE
    /\ pc' = "sgr_enter"
    /\ UNCHANGED <<inputs, mirror, net, entry, setupLocals, syncLocals, valid,
                   sync_ok, bop_ok, bulkVars, called>>

InitReconciler ==
    /\ InitIdle
    /\ config = << >> /\ clean = FALSE
    /\ entry = "setup_git_remotes"
    /\ proj = [id |-> "P1", paths |-> << >>]
    /\ \E m \in InitMirrors("P1") :
        mirror = [id \in ProjectIds |-> IF id = "P1" THEN m ELSE NoMirror]

NextReconciler == CallSetupGitRemotes \/ Provision \/ Reconcile

\* setup_git_remotes called MaxCalls times on one Mirror, from any remote set.
SpecReconciler == InitReconciler /\ [][NextReconciler]_vars

(* ------------- the two variants of setup_git_remotes ------------------- *)
\* setup_git_remotes of backup/operations.py called on an existing Mirror;
\* prev keeps the remote set the call starts from.
CallOpsSetupGitRemotes ==
    /\ pc = "idle"
    /\ entry = "operations.setup_git_remotes"
    /\ calls < MaxCalls
    /\ \E paths \in PathLists(0, MaxPaths) :
        proj' = [id |-> proj.id, paths |-> paths]
    /\ prev' = Snapshot("operations.setup_git_remotes", setup_ok)
    /\ calls' = calls + 1
    /\ log' = << >>
    /\ setup_ok' = FALSE
    /\ pc' = "ops_enter"
    /\ UNCHANGED <<inputs, mirror, net, entry, setupLocals, syncLocals, valid,
                   sync_ok, bop_ok, bulkVars, called>>

InitVariants ==
    /\ InitIdle
    /\ config = << >> /\ clean = FALSE
    /\ entry \in {"setup_git_remotes", "operations.setup_git_remotes"}
    /\ proj = [id |-> "P1", paths |-> << >>]
    /\ \E m \in InitMirrors("P1") \ {NoMirror} :
        mirror = [id \in ProjectIds |-> IF id = "P1" THEN m ELSE NoMirror]

NextVariants == CallSetupGitRemotes \/ SetupEnter \/ Reconcile
                    \/ CallOpsSetupGitRemotes \/ OpsReconcile

\* One of the two setup_git_remotes called MaxCalls times on one existing
\* Mirror, from any remote set.
SpecVariants == InitVariants /\ [][NextVariants]_vars

(* ------------------- sync_repositories called directly ----------------- *)
\* The order DestinationPaths are listed in.
PathOrder == <<"gl/a/repo1.git", "gl/b/repo2.git">>

\* A configured list of n paths.
ConfiguredPaths(n) == [j \in 1..n |-> PathOrder[((j - 1) % Len(PathOrder)) + 1]]

\* The remotes a successful reconciliation with n paths leaves.
ReconciledRemotes(id, n) ==
    [name \in {"origin"} \cup {BackupName(j - 1) : j \in 1..n} |->
        IF name = "origin" THEN OriginUrl(id)
        ELSE BackupUrl(ConfiguredPaths(n)[CHOOSE j \in 1..n : name = BackupName(j - 1)])]

SyncMirrors(id) ==
    {NoMirror} \cup
    {[dir |-> TRUE, git |-> TRUE, helper |-> TRUE, head |-> h, remotes |-> r] :
        h \in Heads,
        r \in UNION {{ReconciledRemotes(id, n), Drop(ReconciledRemotes(id, n), "origin")} :
                        n \in 0..(MaxPaths + 1)}}

CallSyncRepositories ==
    /\ pc = "idle"
    /\ entry = "sync_repositories"
    /\ calls < MaxCalls
    /\ calls' = calls + 1
    /\ log' = << >>
    /\ pc' = "sync_enter"
    /\ UNCHANGED <<inputs, mirror, net, entry, proj, setupLocals, syncLocals, setup_ok,
                   valid, sync_ok, bop_ok, bulkVars, called, prev>>

InitSync ==
    /\ InitIdle
    /\ config = << >> /\ clean = FALSE
    /\ entry = "sync_repositories"
    /\ proj = [id |-> "P1", paths |-> << >>]
    /\ \E m \in SyncMirrors("P1") :
        mirror = [id \in ProjectIds |-> IF id = "P1" THEN m ELSE NoMirror]

NextSync == CallSyncRepositories \/ Sync

\* sync_repositories called MaxCalls times on one Mirror.
SpecSync == InitSync /\ [][NextSync]_vars

(* ------- check_cache_overleaf_git_config_valid called directly --------- *)
CallCheckConfigValid ==
    /\ pc = "idle"
    /\ entry = "check_cache_overleaf_git_config_valid"
    /\ calls < MaxCalls
    /\ \E paths \in PathLists(0, MaxPaths) :
        proj' = [id |-> proj.id, paths |-> paths]
    /\ calls' = calls + 1
    /\ log' = << >>
    /\ valid' = FALSE
    /\ pc' = "val_check"
    /\ UNCHANGED <<inputs, mirror, net, entry, setupLocals, syncLocals, setup_ok,
                   sync_ok, bop_ok, bulkVars, called, prev>>

InitValidator ==
    /\ InitIdle
    /\ config = << >> /\ clean = FALSE
    /\ entry = "check_cache_overleaf_git_config_valid"
    /\ proj = [id |-> "P1", paths |-> << >>]
    /\ \E m \in InitMirrors("P1") :
        mirror = [id \in ProjectIds |-> IF id = "P1" THEN m ELSE NoMirror]

NextValidator == CallCheckConfigValid \/ ValidatorCheck

\* The Validator called MaxCalls times on one Mirror, from any remote set.
SpecValidator == InitValidator /\ [][NextValidator]_vars

(* ------------- the Inspector or the Validator called directly --------- *)
InitReadOnly ==
    /\ InitIdle
    /\ config = << >> /\ clean = FALSE
    /\ entry \in {"get_all_git_remotes", "check_cache_overleaf_git_config_valid"}
    /\ proj = [id |-> "P1", paths |-> << >>]
    /\ \E m \in InitMirrors("P1") :
        mirror = [id \in ProjectIds |-> IF id = "P1" THEN m ELSE NoMirror]

NextReadOnly == CallGetAllGitRemotes \/ InspectMissing \/ InspectList
                    \/ InspectResolve \/ CallCheckConfigValid \/ ValidatorCheck

\* get_all_git_remotes or the Validator called MaxCalls times on one Mirror
\* path, the Mirror there or not.
SpecReadOnly == InitReadOnly /\ [][NextReadOnly]_vars

(* ---------------- any function of the core called directly ------------ *)
InitCore == InitReconciler \/ InitValidator \/ InitSync

NextCore == NextReconciler \/ NextValidator \/ NextSync

\* One of setup_git_remotes, the Validator and sync_repositories called
\* MaxCalls times on one Mirror.
SpecCore == InitCore /\ [][NextCore]_vars

(* ------------------------------ the program ---------------------------- *)
\* A Mirror left by an earlier run whose path list was another one.
PriorMirror(id) ==
    [dir |-> TRUE, git |-> TRUE, helper |-> TRUE, head |-> "master",
     remotes |-> [name \in {"origin", "backup0", "backup1"} |->
                    CASE name = "origin" -> OriginUrl(id)
                      [] name = "backup0" -> BackupUrl(PathOrder[2])
                      [] OTHER -> BackupUrl(PathOrder[1])]]

\* available_projects: 1..MaxProjects distinct ids, each with 1..MaxPaths
\* paths (main refuses an empty mapping; split(',') yields >= 1 path).
Configs ==
    UNION {{[j \in 1..n |-> [id |-> ProjectOrder[j], paths |-> ConfiguredPaths(m[j])]] :
                m \in [1..n -> 1..MaxPaths]} :
           n \in 1..MaxProjects}

Init ==
    /\ InitIdle
    /\ entry = "backup_all_projects"
    /\ proj = NoProject
    /\ clean = FALSE
    /\ config \in Configs
    /\ mirror \in {[id \in ProjectIds |-> IF id \in S THEN PriorMirror(id) ELSE NoMirror] :
                      S \in SUBSET ProjectIds}

Next == Bulk \/ Workflow \/ Provision \/ Reconcile \/ ValidatorCheck \/ Sync

\* overleaf2gitlab backup-all, run MaxRuns times over one cache.
Spec == Init /\ [][Next]_vars

InitSingle ==
    /\ InitIdle
    /\ entry = "backup_single_project"
    /\ proj = NoProject
    /\ clean = FALSE
    /\ config \in Configs
    /\ mirror \in {[id \in ProjectIds |-> IF id \in S THEN PriorMirror(id) ELSE NoMirror] :
                      S \in SUBSET ProjectIds}

NextSingle == Single \/ Workflow \/ Provision \/ Reconcile \/ ValidatorCheck \/ Sync

\* overleaf2gitlab backup-single <overleaf_id>, run MaxRuns times over one cache.
SpecSingle == InitSingle /\ [][NextSingle]_vars

(* --------------------------- edit_gitlab_paths ------------------------- *)
MaxEdits == 3

\* str.strip() for blanks
RECURSIVE Strip(_)
Strip(s) ==
    IF s = "" THEN s
    ELSE IF SubSeq(s, 1, 1) = " " THEN Strip(SubSeq(s, 2, Len(s)))
    ELSE IF SubSeq(s, Len(s), Len(s)) = " " THEN Strip(SubSeq(s, 1, Len(s) - 1))
    ELSE s

\* str.split(','): the pieces between the commas, <<"">> for "".
RECURSIVE Split(_)
Split(s) ==
    IF \A c \in 1..Len(s) : SubSeq(s, c, c) # "," THEN <<s>>
    ELSE LET c == CHOOSE c \in 1..Len(s) :
                    /\ SubSeq(s, c, c) = ","
                    /\ \A d \in 1..(c - 1) : SubSeq(s, d, d) # ","
         IN  <<SubSeq(s, 1, c - 1)>> \o Split(SubSeq(s, c + 1, Len(s)))

\* ', '.join(gitlab_paths)
RECURSIVE Join(_)
Join(gitlab_paths) ==
    IF gitlab_paths = << >> THEN ""
    ELSE IF Len(gitlab_paths) = 1 THEN gitlab_paths[1]
    ELSE gitlab_paths[1] \o ", " \o Join(Tail(gitlab_paths))

\* lines 98-99: gitlab_paths = [p.strip() for p in value.split(',')]
StoredPaths(value) == [n \in 1..Len(Split(value)) |-> Strip(Split(value)[n])]

\* What the user types at the prompts for a path or a list of paths.
TypedPaths == {"", " ", "gl/b/repo2.git", " gl/a/repo1.git", ",",
               "gl/a/repo1.git,gl/b/repo2.git"}

\* config['repos'] as the editor holds and writes it: <<[id, value]>>, value
\* the stored string.
InRepos(overleaf_id) == \E j \in 1..Len(config) : config[j].id = overleaf_id
ValueOf(overleaf_id) ==
    config[CHOOSE j \in 1..Len(config) : config[j].id = overleaf_id].value
SetValue(overleaf_id, v) ==
    config' = [j \in 1..Len(config) |->
                  IF config[j].id = overleaf_id
                  THEN [id |-> overleaf_id, value |-> v] ELSE config[j]]
DelKey(overleaf_id) ==
    config' = SelectSeq(config, LAMBDA e : e.id # overleaf_id)

frameEdit == <<clean, mirror, net, entry, setupLocals, syncLocals, setup_ok, valid,
               sync_ok, bop_ok, bulkVars, log, called, prev>>

\* lines 92-94: the call, for an id that is in the mapping or not.
EditEnter ==
    /\ pc = "idle"
    /\ entry = "edit_gitlab_paths"
    /\ calls < MaxEdits
    /\ \E overleaf_id \in ProjectIds :
        /\ proj' = [id |-> overleaf_id, paths |-> << >>]
        /\ pc' = IF InRepos(overleaf_id) THEN "edit_menu" ELSE "idle"
    /\ calls' = calls + 1
    /\ UNCHANGED <<config, frameEdit>>

\* lines 122-128: choice 1, add a path
EditAdd ==
    /\ pc = "edit_menu"
    /\ calls < MaxEdits
    /\ \E typed \in TypedPaths :
        LET gitlab_paths == StoredPaths(ValueOf(proj.id))
            new_path == Strip(typed)
        IN  IF new_path # ""
            THEN SetValue(proj.id, Join(Append(gitlab_paths, new_path)))
            ELSE UNCHANGED config
    /\ calls' = calls + 1
    /\ UNCHANGED <<pc, proj, frameEdit>>

\* lines 130-168: choice 2, remove a path, cancel, or delete the project
EditRemove ==
    /\ pc = "edit_menu"
    /\ calls < MaxEdits
    /\ LET gitlab_paths == StoredPaths(ValueOf(proj.id))
       IN  \E del \in 1..(Len(gitlab_paths) + 1), confirm \in {"j", "n"} :
            LET rest == [n \in 1..(Len(gitlab_paths) - 1) |->
                            IF n < del THEN gitlab_paths[n] ELSE gitlab_paths[n + 1]]
            IN  IF del = Len(gitlab_paths) + 1
                THEN UNCHANGED <<config, pc>>
                ELSE IF rest = << >>
                THEN IF confirm = "j"
                     THEN DelKey(proj.id) /\ pc' = "idle"
                     ELSE UNCHANGED <<config, pc>>
                ELSE SetValue(proj.id, Join(rest)) /\ UNCHANGED pc
    /\ calls' = calls + 1
    /\ UNCHANGED <<proj, frameEdit>>

\* lines 170-175: choice 3, set all paths anew
EditReset ==
    /\ pc = "edit_menu"
    /\ calls < MaxEdits
    /\ \E typed \in TypedPaths :
        LET new_paths == Strip(typed)
        IN  IF new_paths # "" THEN SetValue(proj.id, new_paths)
            ELSE UNCHANGED config
    /\ calls' = calls + 1
    /\ UNCHANGED <<pc, proj, frameEdit>>

\* lines 177-178: choices 4 and 5, done and back
EditDone ==
    /\ pc = "edit_menu"
    /\ pc' = "idle"
    /\ UNCHANGED <<config, proj, calls, frameEdit>>

\* Mappings as add_single_mapping writes them: one or two paths a project.
InitEditor ==
    /\ InitIdle
    /\ entry = "edit_gitlab_paths"
    /\ proj = NoProject
    /\ clean = FALSE
    /\ mirror = [id \in ProjectIds |-> NoMirror]
    /\ config \in {[j \in 1..n |-> [id |-> ProjectOrder[j],
                                     value |-> Join(ConfiguredPaths(m[j]))]] :
                       n \in 1..MaxProjects, m \in [1..MaxProjects -> 1..MaxPaths]}

NextEditor == EditEnter \/ EditAdd \/ EditRemove \/ EditReset \/ EditDone

\* edit_gitlab_paths called on one mapping, MaxEdits calls and menu actions.
SpecEditor == InitEditor /\ [][NextEditor]_vars

(* ======================= claims: the Reconciler ======================== *)
SetupReturned == entry = "setup_git_remotes" /\ pc = "idle" /\ calls > 0

Digits == {"0", "1", "2", "3", "4", "5", "6", "7", "8", "9"}

\* backup<j>, j a non-negative integer
IsIndexedBackup(name) ==
    /\ StartsWith(name, "backup")
    /\ Len(name) > Len("backup")
    /\ \A c \in (Len("backup") + 1)..Len(name) : SubSeq(name, c, c) \in Digits

HasOrigin(remotes, id) ==
    "origin" \in DOMAIN remotes /\ remotes["origin"] = OriginUrl(id)

HasBackups(remotes, paths) ==
    \A j \in 1..Len(paths) :
        /\ BackupName(j - 1) \in DOMAIN remotes
        /\ remotes[BackupName(j - 1)] = BackupUrl(paths[j])

NoStaleBackup(remotes, paths) ==
    \A name \in DOMAIN remotes :
        IsIndexedBackup(name) => \E j \in 1..Len(paths) : name = BackupName(j - 1)

\* C1: whenever setup_git_remotes returns success the Mirror has origin =
\* https://git.overleaf.com/<id>, backup<i> = ssh://<p[i]> for every i < n, and
\* no remote named backup<j> with j >= n.
C1_ReconcilerPostState ==
    (SetupReturned /\ setup_ok) =>
        /\ HasOrigin(repo.remotes, proj.id)
        /\ HasBackups(repo.remotes, proj.paths)
        /\ NoStaleBackup(repo.remotes, proj.paths)

SecondRunSameProject ==
    /\ SetupReturned
    /\ prev.fn = "setup_git_remotes"
    /\ prev.proj = proj
    /\ prev.allOk
    /\ AllOk(log)

\* C2: setup_git_remotes run twice in a row with the same Project, every
\* command succeeding in both runs, leaves after the second run exactly the
\* remote set (names and URLs) that the first run left.
C2_ReconcilerIdempotent ==
    SecondRunSameProject => repo.remotes = prev.remotes

\* C2 witness: a second all-succeeding run that removed and re-added two
\* backup remotes, on a Mirror whose origin the first run had to add.
C2_Witness ==
    /\ SecondRunSameProject
    /\ Len(proj.paths) = 2
    /\ \E n \in 1..Len(log) : log[n].cmd = "git remote remove"
    /\ \E n \in 1..Len(log) : log[n].cmd = "git remote set-url"

IsPermutation(a, b) ==
    /\ Len(a) = Len(b)
    /\ \E f \in [1..Len(a) -> 1..Len(a)] :
        /\ \A x, y \in 1..Len(a) : f[x] = f[y] => x = y
        /\ \A x \in 1..Len(a) : b[x] = a[f[x]]

Reordered ==
    /\ SetupReturned
    /\ setup_ok
    /\ prev.fn = "setup_git_remotes"
    /\ prev.ok
    /\ IsPermutation(prev.proj.paths, proj.paths)

\* C3: a Mirror reconciled with list L and then reconciled with a permutation
\* L' of L has backup<i> = ssh://<L'[i]> for every index i, and no backup<i>
\* keeps the URL of L[i] unless L'[i] = L[i].
C3_ReorderSafety ==
    Reordered =>
        /\ HasBackups(repo.remotes, proj.paths)
        /\ \A j \in 1..Len(proj.paths) :
            proj.paths[j] # prev.proj.paths[j] =>
                repo.remotes[BackupName(j - 1)] # BackupUrl(prev.proj.paths[j])

\* C3 witness: the second reconciliation swapped two different paths.
C3_Witness ==
    /\ Reordered
    /\ Len(proj.paths) = 2
    /\ proj.paths[1] # proj.paths[2]
    /\ proj.paths[1] = prev.proj.paths[2]

(* ======================= claims: the Sync Engine ======================= *)
SyncReturned == entry = "sync_repositories" /\ pc = "idle" /\ calls > 0

Range(seq) == {seq[n] : n \in 1..Len(seq)}

PullOk(b) == \E e \in Range(log) : e.cmd = "git pull" /\ e.ref = b /\ e.ok
PullFailed(b) == \E e \in Range(log) : e.cmd = "git pull" /\ e.ref = b /\ ~e.ok

\* Origin is reachable and serves main or master.
OriginPullable ==
    "origin" \in DOMAIN repo.remotes /\ net.origin \in {"main", "master"}

\* C4: for an existing Mirror sync_repositories returns success iff a pull
\* from origin (main or master) succeeded, and the outcome of no other
\* command changes the result: it is success exactly when origin can be pulled.
C4_SyncVerdict ==
    (SyncReturned /\ repo.git) =>
        /\ sync_ok <=> (PullOk("main") \/ PullOk("master"))
        /\ sync_ok <=> OriginPullable

\* C5: main fails and master succeeds: success, master recorded as the pulled
\* branch; both fail: failure, and neither a push nor a tag fetch in that run.
C5_FallbackCorrect ==
    SyncReturned =>
        /\ (PullFailed("main") /\ PullOk("master")) =>
                sync_ok /\ pulled /\ branch = "master"
        /\ (PullFailed("main") /\ PullFailed("master")) =>
                /\ ~sync_ok
                /\ \A e \in Range(log) : e.cmd \notin {"git push", "git fetch"}

\* C5 witness: a run that fell back to master and went on to push.
C5_Witness ==
    /\ SyncReturned
    /\ PullFailed("main") /\ PullOk("master")
    /\ \E e \in Range(log) : e.cmd = "git push" /\ e.ref = "--tags"

BackupNames == {name \in DOMAIN repo.remotes : StartsWith(name, "backup")}

\* The backup remotes that are unreachable or rejected a push in this run.
FailingBackups ==
    {r \in BackupNames :
        \/ r \in net.down
        \/ \E e \in Range(log) : e.cmd = "git push" /\ e.arg = r /\ ~e.ok}

\* C6: origin pullable and a non-empty set of backup remotes failing: the run
\* still attempts a branch push to every other backup remote and returns success.
C6_PartialFailureIsolation ==
    (SyncReturned /\ repo.git /\ OriginPullable /\ FailingBackups # {}) =>
        /\ sync_ok
        /\ \A r \in BackupNames \ FailingBackups :
            \E e \in Range(log) : e.cmd = "git push" /\ e.arg = r /\ e.ref # "--tags"

(* ======================= claims: the Orchestrator ====================== *)
ValidatorSaidInvalid ==
    /\ "check_cache_overleaf_git_config_valid" \in Range(called)
    /\ pc # "val_check"
    /\ ~valid

\* C7: once the Validator has reported invalid, sync_repositories is not
\* invoked in that workflow, no remote update, pull, fetch or push is issued,
\* and the workflow returns failure.
C7_ValidationGating ==
    ValidatorSaidInvalid =>
        /\ "sync_repositories" \notin Range(called)
        /\ \A e \in Range(log) :
            e.cmd \notin {"git remote update", "git pull", "git fetch", "git push"}
        /\ pc = "bulk_ret" => ~bop_ok

\* C7 witness: a workflow that returned after the Validator said invalid.
C7_Witness == ValidatorSaidInvalid /\ pc = "bulk_ret"

BulkEnded == entry = "backup_all_projects" /\ pc \in {"exited", "raised"}

\* C8: when the bulk run has ended, the workflow has been started for every
\* configured Project, once each, in mapping order.
C8_BulkIsolation ==
    BulkEnded => started = [j \in 1..Len(config) |-> config[j].id]

\* C9: no failure of an external command leaves backup_overleaf_project as an
\* exception.
C9_NoExceptionEscapes == pc # "raised"

BulkFinished == entry = "backup_all_projects" /\ pc \in {"bulk_done", "exited"}

\* C10: when backup_all_projects finishes, success_count is the number of
\* workflows that returned success, total_count the number of configured
\* Projects, 0 <= success_count <= total_count, the verdict is true iff
\* success_count = total_count, and the exit status is 0 iff the verdict is true.
C10_BulkVerdict ==
    BulkFinished =>
        /\ Len(results) = Len(config)
        /\ success_count = Cardinality({n \in 1..Len(results) : results[n]})
        /\ total_count = Len(config)
        /\ success_count <= total_count
        /\ bulk_ok <=> (success_count = total_count)
        /\ bulk_ok <=> \A n \in 1..Len(results) : results[n]
        /\ pc = "exited" => (exit_status = 0 <=> bulk_ok)

\* C10 witness: a finished run of two projects, one succeeded and one failed.
C10_Witness ==
    /\ BulkFinished /\ pc = "exited"
    /\ Len(results) = 2
    /\ results[1] # results[2]

\* The workflow in progress has ended: returned to the loop, or raised.
WorkflowEnded == pc \in {"bulk_ret", "raised"}

\* C11: the Mirror directory is gone after a workflow only if cleanup was
\* requested and sync_repositories succeeded in that run, and it is gone
\* whenever such a workflow returns; after every failing run and every run
\* without the clean flag the directory exists.
C11_CleanupCondition ==
    /\ WorkflowEnded => (~repo.dir => (clean /\ sync_ok))
    /\ pc = "bulk_ret" => ((clean /\ sync_ok) => (~repo.dir /\ ~repo.git))
    /\ (pc = "bulk_ret" /\ ~bop_ok) => repo.dir

\* C11 witness: a workflow with the clean flag returned after a successful
\* sync and the Mirror is gone.
C11_Witness ==
    /\ pc = "bulk_ret" /\ bop_ok /\ clean /\ sync_ok
    /\ ~repo.dir
    /\ \E e \in Range(log) : e.cmd = "rm -rfd" /\ e.ok

(* ======================= claims: order of the steps ==================== *)
IsPrefix(a, b) == Len(a) <= Len(b) /\ \A n \in 1..Len(a) : a[n] = b[n]

\* The functions backup_overleaf_project calls, in the order of its text.
WorkflowOrder == <<"setup_git_remotes", "check_cache_overleaf_git_config_valid",
                   "sync_repositories">>

CurrentFunction == IF called = << >> THEN "" ELSE called[Len(called)]

\* The step a logged command belongs to: Provision 1, Reconcile 2, Validate 3,
\* remote update 4, Pull 5, TagFetch 6, Fanout 7, cleanup 8.  The remote
\* listing belongs to the step of the function that inspects.
StepOf(e) ==
    CASE e.cmd \in {"git init", "git config"} -> 1
      [] e.cmd \in {"git remote add", "git remote set-url", "git remote remove"} -> 2
      [] e.cmd = "git remote" ->
            (CASE CurrentFunction = "setup_git_remotes" -> 2
               [] CurrentFunction = "check_cache_overleaf_git_config_valid" -> 3
               [] OTHER -> 7)
      [] e.cmd = "git remote update" -> 4
      [] e.cmd = "git pull" -> 5
      [] e.cmd = "git fetch" -> 6
      [] e.cmd \in {"git rev-parse", "git push"} -> 7
      [] OTHER -> 8

StepsOfFunction(fn) ==
    CASE fn = "setup_git_remotes" -> {1, 2}
      [] fn = "check_cache_overleaf_git_config_valid" -> {3}
      [] fn = "sync_repositories" -> {4, 5, 6, 7, 8}
      [] OTHER -> {}

\* Provision, Reconcile, Validate, Pull, TagFetch, Fanout occur in this order
\* only; a tag fetch only after a successful pull; a push only after the tag
\* fetch was attempted.
StepsInOrder ==
    /\ IsPrefix(called, WorkflowOrder)
    /\ \A n \in 1..Len(log) : StepOf(log[n]) \in StepsOfFunction(CurrentFunction)
    /\ \A m, n \in 1..Len(log) : m < n => StepOf(log[m]) <= StepOf(log[n])
    /\ \A n \in 1..Len(log) :
        log[n].cmd = "git fetch" =>
            \E m \in 1..(n - 1) : log[m].cmd = "git pull" /\ log[m].ok
    /\ \A n \in 1..Len(log) :
        log[n].cmd = "git push" => \E m \in 1..(n - 1) : log[m].cmd = "git fetch"

InSync == CurrentFunction = "sync_repositories" /\ log # << >>

ValidatorReturned ==
    entry = "check_cache_overleaf_git_config_valid" /\ pc = "idle" /\ calls > 0

\* The Mirror is a Git repository whose origin and backup<i>, i < n, are
\* present with the expected URLs; no other remote is looked at.
WellFormed(m, id, paths) ==
    /\ m.git
    /\ HasOrigin(m.remotes, id)
    /\ HasBackups(m.remotes, paths)

\* C13 as stated: the verdict is valid iff the Mirror is well formed, for
\* every Mirror state.
C13_ValidatorVerdict_EveryState ==
    ValidatorReturned => (valid <=> WellFormed(repo, proj.id, proj.paths))

\* C13, amended: a valid verdict implies a well-formed Mirror; when the
\* inspection commands of the call succeeded, the verdict is valid iff the
\* Mirror is well formed, whatever other remotes are present.
C13_ValidatorVerdict ==
    ValidatorReturned =>
        /\ valid => WellFormed(repo, proj.id, proj.paths)
        /\ AllOk(log) => (valid <=> WellFormed(repo, proj.id, proj.paths))

\* C13 witness: a valid verdict for two paths on a Mirror that also holds
\* backup-old and upstream.
C13_Witness ==
    /\ ValidatorReturned /\ valid
    /\ Len(proj.paths) = 2
    /\ {"backup-old", "upstream"} \subseteq DOMAIN repo.remotes

(* ======================= claims: unexpected remotes ==================== *)
\* Neither origin nor backup<i>.
IsUnexpectedName(name) == name # "origin" /\ ~IsIndexedBackup(name)

\* C14: no step of setup_git_remotes removes or changes a remote whose name
\* is neither origin nor backup<i>, backup-old and upstream included.
C14_UnexpectedRemotesKept ==
    [][\A name \in DOMAIN repo.remotes :
          IsUnexpectedName(name) =>
              /\ name \in DOMAIN repo'.remotes
              /\ repo'.remotes[name] = repo.remotes[name]]_vars

(* ======================= claims: fan-out and tag fetch ================= *)
AnyPullOk == PullOk("main") \/ PullOk("master")

\* C15: the pull succeeded and the Mirror has no backup remote: the run
\* issued no push and returned success.
C15_EmptyFanout ==
    (SyncReturned /\ AnyPullOk /\ BackupNames = {}) =>
        /\ sync_ok
        /\ \A e \in Range(log) : e.cmd # "git push"

\* C15 witness: such a run, pulled from master, has returned.
C15_Witness ==
    /\ SyncReturned /\ PullOk("master") /\ BackupNames = {}
    /\ sync_ok
    /\ \E e \in Range(log) : e.cmd = "git remote" /\ e.ok

IsBranchPush(e) == e.cmd = "git push" /\ e.ref # "--tags"

\* The remotes a branch push was attempted to, in order.
FanoutAttempts ==
    LET pushes == SelectSeq(log, IsBranchPush)
    IN  [n \in 1..Len(pushes) |-> pushes[n].arg]

TagFetches == {n \in 1..Len(log) : log[n].cmd = "git fetch"}

\* C16: after a successful pull exactly one tag fetch is attempted and the
\* run returns success whether or not it failed; the pushes attempted are
\* those to the listed backup remotes, in sorted order, whatever the fetch did.
C16_TagFetchNonFatal ==
    /\ (SyncReturned /\ AnyPullOk) => (sync_ok /\ Cardinality(TagFetches) = 1)
    /\ pc \in {"sync_push_branch", "sync_push_tags"} =>
        /\ Cardinality(TagFetches) = 1
        /\ FanoutAttempts =
              SubSeq(backup_remotes, 1, IF pc = "sync_push_tags" THEN k ELSE k - 1)
    /\ (SyncReturned /\ AnyPullOk /\ \E e \in Range(log) : e.cmd = "git remote" /\ e.ok) =>
        FanoutAttempts = SortedBackupRemotes(repo.remotes)

\* C16 witness: the tag fetch failed and the run pushed to backup0 and
\* backup1 and returned success.
C16_Witness ==
    /\ SyncReturned /\ sync_ok
    /\ \E e \in Range(log) : e.cmd = "git fetch" /\ ~e.ok
    /\ FanoutAttempts = <<"backup0", "backup1">>

(* ======================= claims: the Mirror ============================ *)
RemoteOps == {"git remote add", "git remote set-url", "git remote remove",
              "git remote update", "git pull", "git fetch", "git push"}

\* The step issues a remote operation.
IssuesRemoteOp ==
    /\ Len(log') = Len(log) + 1
    /\ log'[Len(log')].cmd \in RemoteOps

\* C17: every remote operation is issued on a Mirror that is an initialized
\* Git repository, and sync_repositories on a missing Mirror returns failure
\* having issued no command.
C17_MirrorBeforeRemoteOp ==
    /\ [][IssuesRemoteOp => repo.git]_vars
    /\ []((SyncReturned /\ ~repo.git) => (~sync_ok /\ log = << >>))

\* C17 witness: setup_git_remotes found no Mirror, initialized one and then
\* added a backup remote to it.
C17_Witness ==
    /\ entry = "setup_git_remotes"
    /\ \E e \in Range(log) : e.cmd = "git init" /\ e.ok
    /\ \E e \in Range(log) : e.cmd = "git remote add" /\ e.arg = "backup0" /\ e.ok

(* ======================= claims: the Provisioner ======================= *)
ProvisionReturned ==
    entry = "mk_cache_overleaf_git_dir" /\ pc = "idle" /\ calls > 0

\* C18: when mk_cache_overleaf_git_dir has completed without error the
\* Mirror is a Git repository with the credential helper configured, and a
\* call that finds the .git marker changes nothing and issues no command.
C18_ProvisionerContract ==
    /\ [](ProvisionReturned => (repo.dir /\ repo.git /\ repo.helper))
    /\ [][(pc = "mk_enter" /\ repo.git) => (mirror' = mirror /\ log' = log)]_vars

(* ======================= claims: the Inspector ========================= *)
InspectorReturned == entry = "get_all_git_remotes" /\ pc = "idle" /\ calls > 0

ResolvedNames ==
    {e.arg : e \in {x \in Range(log) : x.cmd = "git remote get-url" /\ x.ok}}
UnresolvedNames ==
    {e.arg : e \in {x \in Range(log) : x.cmd = "git remote get-url" /\ ~x.ok}}

SingleFinished ==
    entry = "backup_single_project" /\ pc \in {"single_done", "exited"}

\* C20: backup_single_project returns what the workflow returned for the
\* requested id when the id is configured, the workflow having been run with
\* the configured paths; when the id is not configured it returns failure,
\* no function of the workflow is entered, no command is issued and no
\* Mirror changes.  The exit status is 0 iff it returned success.
C20_SingleProjectMode ==
    /\ []((SingleFinished /\ IsConfigured(proj.id)) =>
            /\ single_ok = bop_ok
            /\ proj.paths = PathsOf(proj.id)
            /\ called # << >>)
    /\ []((SingleFinished /\ ~IsConfigured(proj.id)) =>
            (~single_ok /\ called = << >> /\ log = << >>))
    /\ []((entry = "backup_single_project" /\ pc = "exited") =>
            (exit_status = 0 <=> single_ok))
    /\ [][(entry = "backup_single_project" /\ ~IsConfigured(proj'.id)) =>
            mirror' = mirror]_vars

\* C20 witness: the id asked for is not configured, its Mirror from an
\* earlier configuration is in the cache, and the process exited with 1.
C20_Witness ==
    /\ entry = "backup_single_project" /\ pc = "exited"
    /\ ~IsConfigured(proj.id)
    /\ mirror[proj.id] = PriorMirror(proj.id)
    /\ exit_status = 1

(* ======================= claims: failure and recovery ================== *)
ReconcileOps == {"git remote add", "git remote set-url", "git remote remove"}

LastLogged == log[Len(log)]

\* The step issued a remote command of the Reconciler and it failed.
ReconcileOpFails ==
    /\ Len(log') = Len(log) + 1
    /\ log'[Len(log')].cmd \in ReconcileOps
    /\ ~log'[Len(log')].ok

Canonical(remotes, id, paths) ==
    /\ HasOrigin(remotes, id)
    /\ HasBackups(remotes, paths)
    /\ NoStaleBackup(remotes, paths)

InSetup == pc \in {"sgr_enter", "mk_dir", "mk_init", "mk_config", "sgr_inspect_origin",
                   "sgr_origin", "sgr_inspect_backups", "sgr_remove", "sgr_add"}

\* C21: a failing add, set-url or remove makes setup_git_remotes return
\* failure in that step, with the remotes as the earlier commands left them
\* and no later command; while no command of a run has failed the next one
\* can succeed, and a run in which every command succeeded returns success
\* with the canonical remote set, whatever an earlier failed run left.
C21_FailureAndRecovery ==
    /\ [][ReconcileOpFails =>
            (mirror' = mirror /\ pc' = "idle" /\ ~setup_ok')]_vars
    /\ []((SetupReturned /\ \E e \in Range(log) : e.cmd \in ReconcileOps /\ ~e.ok) =>
            (~setup_ok /\ ~LastLogged.ok /\ LastLogged.cmd \in ReconcileOps))
    /\ []((InSetup /\ AllOk(log)) => ENABLED (NextReconciler /\ AllOk(log')))
    /\ []((SetupReturned /\ AllOk(log)) =>
            (setup_ok /\ Canonical(repo.remotes, proj.id, proj.paths)))

\* C21 witness: a run failed at the second add and left backup0 behind;
\* the next run for the same two paths succeeded in every command.
C21_Witness ==
    /\ SetupReturned /\ setup_ok /\ AllOk(log)
    /\ prev.fn = "setup_git_remotes" /\ ~prev.ok
    /\ prev.proj = proj /\ Len(proj.paths) = 2
    /\ "backup0" \in DOMAIN prev.remotes /\ "backup1" \notin DOMAIN prev.remotes
    /\ Canonical(repo.remotes, proj.id, proj.paths)

(* ======================= claims: the pull ============================== *)
IsPull(e) == e.cmd = "git pull"

\* The pull attempts of the run so far, in order: <<branch, outcome>>.
PullAttempts ==
    LET pulls == SelectSeq(log, IsPull)
    IN  [n \in 1..Len(pulls) |-> <<pulls[n].ref, pulls[n].ok>>]

\* C22: the first pull is of main; master is pulled iff the pull of main
\* failed; no pull follows a successful one: at most two attempts and at
\* most one success in a run.
C22_PullPriority ==
    /\ PullAttempts \in {<< >>,
                          << <<"main", TRUE>> >>,
                          << <<"main", FALSE>> >>,
                          << <<"main", FALSE>>, <<"master", TRUE>> >>,
                          << <<"main", FALSE>>, <<"master", FALSE>> >>}
    /\ (pc # "sync_pull" /\ PullFailed("main")) => Len(PullAttempts) = 2
    /\ (SyncReturned /\ \E e \in Range(log) : e.cmd = "git remote update" /\ e.ok) =>
            PullAttempts # << >>

\* C22 witness: the pull of main failed, that of master succeeded and the
\* run went on to the tag fetch.
C22_Witness ==
    /\ pc = "sync_fetch"
    /\ PullAttempts = << <<"main", FALSE>>, <<"master", TRUE>> >>

(* ======================= claims: retries and termination =============== *)
SameCommand(a, b) == a.cmd = b.cmd /\ a.arg = b.arg /\ a.ref = b.ref

\* Every remote name the Mirror held during the call in progress.
NamesSeen ==
    DOMAIN repo.remotes \cup
    {e.arg : e \in {x \in Range(log) : x.cmd \in {"git remote remove", "git push"}}}

CommandBound == 7 + 2 * Cardinality(NamesSeen) + Len(proj.paths)

WorkflowRunning == pc \notin {"idle", "raised"}

IsPush(e) == e.cmd = "git push"

\* The pushes of the run so far, in order.
Pushes == SelectSeq(log, IsPush)

\* C24: the pushes go to the backup remotes in ascending order of name, one
\* remote after the other; for a remote the branch push comes first and the
\* tag push, if any, directly after it; the remotes pushed to are those of
\* the sorted list, so the order depends on the remote set only.
C24_FanoutOrder ==
    /\ \A m, n \in 1..Len(Pushes) :
        m < n => \/ StrLess(Pushes[m].arg, Pushes[n].arg)
                 \/ /\ Pushes[m].arg = Pushes[n].arg
                    /\ n = m + 1
                    /\ Pushes[m].ref # "--tags" /\ Pushes[m].ok
                    /\ Pushes[n].ref = "--tags"
    /\ Len(Pushes) > 0 => Pushes[1].ref # "--tags"
    /\ FanoutAttempts = Sorted(Range(FanoutAttempts))
    /\ (SyncReturned /\ AnyPullOk /\ \E e \in Range(log) : e.cmd = "git remote" /\ e.ok) =>
        FanoutAttempts = Sorted(BackupNames)

\* C24 witness: branch and tags went to backup0, then to backup1, then to
\* backup2.
C24_Witness ==
    /\ SyncReturned
    /\ [n \in 1..Len(Pushes) |-> <<Pushes[n].arg, Pushes[n].ref = "--tags">>] =
          << <<"backup0", FALSE>>, <<"backup0", TRUE>>,
             <<"backup1", FALSE>>, <<"backup1", TRUE>>,
             <<"backup2", FALSE>>, <<"backup2", TRUE>> >>

(* ======================= claims: the branch pushed ===================== *)
RevParses == {n \in 1..Len(log) : log[n].cmd = "git rev-parse"}

\* The branch a run pushes: HEAD's branch when rev-parse succeeded, else main.
BranchToPush ==
    IF \E n \in RevParses : log[n].ok THEN repo.head ELSE "main"

\* C25: HEAD is resolved at most once in a run, after the successful pull
\* and before the first push; every branch push of the run names the branch
\* HEAD resolved to, or main when the resolution failed.
C25_BranchToPush ==
    /\ Cardinality(RevParses) <= 1
    /\ \A n \in RevParses :
        /\ \E m \in 1..(n - 1) : log[m].cmd = "git pull" /\ log[m].ok
        /\ \A m \in 1..(n - 1) : log[m].cmd # "git push"
    /\ \A n \in 1..Len(log) :
        IsBranchPush(log[n]) =>
            /\ \E m \in RevParses : m < n
            /\ log[n].ref = BranchToPush

\* C25 witness: HEAD names master, its resolution failed, and main was
\* pushed to backup0 and to backup1.
C25_Witness ==
    /\ SyncReturned
    /\ repo.head = "master"
    /\ \E n \in RevParses : ~log[n].ok
    /\ \A r \in {"backup0", "backup1"} :
        \E e \in Range(log) : IsBranchPush(e) /\ e.arg = r /\ e.ref = "main"

(* ======================= claims: origin ================================ *)
\* The origin step of setup_git_remotes has just succeeded; current_remotes
\* is still what the inspection of line 166 returned.
AfterOriginStep == pc = "sgr_inspect_backups"

OriginCommands == {n \in 1..Len(log) : log[n].arg = "origin"}

OriginSeen == "origin" \in DOMAIN current_remotes
OriginSeenCorrect == OriginSeen /\ current_remotes["origin"] = OriginUrl(proj.id)

\* C26 as stated: origin is added when absent, its URL is set when it
\* differs, and no command names origin when its URL is the expected one.
C26_OriginMinimal_NoOperation ==
    AfterOriginStep =>
        /\ HasOrigin(repo.remotes, proj.id)
        /\ ~OriginSeen => LastLogged.cmd = "git remote add"
        /\ (OriginSeen /\ ~OriginSeenCorrect) => LastLogged.cmd = "git remote set-url"
        /\ OriginSeenCorrect => OriginCommands = {}

\* C26, amended: origin is added when the inspection did not report it, and
\* git remote set-url origin <expected URL> is issued whenever the inspection
\* reported it, the expected URL included; one command names origin, the
\* Mirror then has origin with the expected URL, and a step that finds the
\* expected URL in place leaves the remote set as it was.
C26_OriginReconcile ==
    /\ [](AfterOriginStep =>
            /\ HasOrigin(repo.remotes, proj.id)
            /\ Cardinality(OriginCommands) = 1
            /\ LastLogged.arg = "origin" /\ LastLogged.ok
            /\ LastLogged.cmd = IF OriginSeen THEN "git remote set-url"
                                 ELSE "git remote add")
    /\ [][(pc = "sgr_origin" /\ HasOrigin(repo.remotes, proj.id)) =>
            repo'.remotes = repo.remotes]_vars

\* C26 witness: origin was reported with the expected URL and set-url was
\* issued for it.
C26_Witness ==
    /\ AfterOriginStep
    /\ OriginSeenCorrect
    /\ LastLogged.cmd = "git remote set-url" /\ LastLogged.ok

(* ======================= claims: reconcile, then validate ============== *)
\* The Validator has returned to backup_overleaf_project; setup_git_remotes
\* returned success just before it was called.
ValidatedAfterSetup == pc = "bop_valid_ret"

\* C27 as stated: the Validator called right after a successful
\* setup_git_remotes returns valid.
C27_ReconcileThenValidate_AlwaysValid ==
    ValidatedAfterSetup => valid

\* C27, amended: after a successful setup_git_remotes the Mirror is well
\* formed for the Project, and the Validator called next returns valid
\* unless its own inspection of the remotes failed.
C27_ReconcileThenValidate ==
    ValidatedAfterSetup =>
        /\ setup_ok
        /\ WellFormed(repo, proj.id, proj.paths)
        /\ AllOk(log) => valid
        /\ valid \/ (Len(log) = 1 /\ log[1].cmd = "git remote" /\ ~log[1].ok)

\* C27 witness: valid for two paths on a Mirror that had no origin, two
\* other backup URLs and backup-old before.
C27_Witness ==
    /\ ValidatedAfterSetup /\ valid
    /\ proj.paths = <<"gl/b/repo2.git", "gl/a/repo1.git">>
    /\ DOMAIN repo.remotes = {"origin", "backup0", "backup1", "upstream"}

(* ======================= claims: the verdict of the workflow =========== *)
WorkflowReturned ==
    entry = "backup_overleaf_project" /\ pc = "idle" /\ calls > 0

\* C28: backup_overleaf_project returns success iff setup_git_remotes
\* returned success, the Validator valid and sync_repositories success in
\* that run; it returns failure at the first that fails, the later ones not
\* being called.
C28_OrchestratorVerdict ==
    WorkflowReturned =>
        /\ bop_ok <=> (setup_ok /\ valid /\ sync_ok)
        /\ called = IF ~setup_ok THEN SubSeq(WorkflowOrder, 1, 1)
                    ELSE IF ~valid THEN SubSeq(WorkflowOrder, 1, 2)
                    ELSE WorkflowOrder

\* C28 witness: reconciled and valid, the sync failed and the workflow
\* returned failure.
C28_Witness ==
    /\ WorkflowReturned
    /\ setup_ok /\ valid /\ ~sync_ok /\ ~bop_ok
    /\ called = WorkflowOrder

(* ======================= claims: the targets of the fan-out ============ *)
Pushing == pc \in {"sync_push_branch", "sync_push_tags"}

\* The remote is backup<j-1> of the current list and holds the URL of p[j-1].
CurrentDestination(name) ==
    \E j \in 1..Len(proj.paths) :
        /\ name = BackupName(j - 1)
        /\ name \in DOMAIN repo.remotes
        /\ repo.remotes[name] = BackupUrl(proj.paths[j])

\* C29: in every run of backup_overleaf_project, whatever remotes earlier
\* runs left in the Mirror, every push goes to a remote backup<i>, i < n,
\* whose URL at push time is ssh://<p[i]>.
C29_FanoutOnlyCurrent ==
    (entry = "backup_overleaf_project" /\ Pushing) =>
        \A n \in 1..Len(log) :
            log[n].cmd = "git push" => CurrentDestination(log[n].arg)

(* ======================= claims: the credential helper ================= *)
\* C30: across any sequence of calls, a call in which git init or git config
\* failed included, every remote operation is issued on a Mirror that is an
\* initialized Git repository with the credential helper configured.
C30_CredentialHelper ==
    [][IssuesRemoteOp => (repo.git /\ repo.helper)]_vars

(* ======================= claims: what a call leaves alone ============== *)
\* C31: the steps of the workflow for one Project leave the Mirror of every
\* other Project as it was (directory, repository, remotes), the Mirror
\* directories of two Projects being different directories.
C31_CrossProjectFrame ==
    /\ [](\A a, b \in ProjectIds : a # b => MirrorDir(a) # MirrorDir(b))
    /\ [][\A b \in ProjectIds \ {proj.id} : mirror'[b] = mirror[b]]_vars

\* C31 witness: the workflow for P1 reconciled, synced and removed the
\* Mirror of P1 while P2 kept the Mirror an earlier run had left.
C31_Witness ==
    /\ entry = "backup_all_projects"
    /\ started = <<"P1">> /\ results = <<TRUE>>
    /\ mirror["P1"] = NoMirror
    /\ mirror["P2"] = PriorMirror("P2")

\* C32: no step of get_all_git_remotes or of the Validator changes the
\* Mirror, whether it exists or not and whatever is returned: directory,
\* repository, remote names and URLs stay as they were.
C32_ReadOnlyInspection ==
    [][mirror' = mirror]_vars

\* C32 witness: get_all_git_remotes returned without a remote whose URL did
\* not resolve, and the Mirror still has that remote.
C32_Witness ==
    /\ entry = "get_all_git_remotes" /\ pc = "idle" /\ calls > 0
    /\ \E n \in 1..Len(log) : log[n].cmd = "git remote get-url" /\ ~log[n].ok
    /\ DOMAIN current_remotes # DOMAIN repo.remotes
    /\ "backup0" \in DOMAIN repo.remotes \ DOMAIN current_remotes

(* ======================= claims: tags after the branch ================= *)
IsTagPush(e) == e.cmd = "git push" /\ e.ref = "--tags"

BranchPushedOk(r) == \E e \in Range(log) : IsBranchPush(e) /\ e.arg = r /\ e.ok

TagPushAttempted(r) == \E e \in Range(log) : IsTagPush(e) /\ e.arg = r

\* C33: within one fan-out the tags are pushed to a backup remote exactly
\* when the branch push to it succeeded: a tag push directly follows the
\* successful branch push to the same remote, and after a failed branch push
\* the next command, if any, is the branch push to another remote.
C33_TagsAfterBranch ==
    /\ \A n \in 1..Len(log) :
        /\ IsTagPush(log[n]) =>
                n > 1 /\ IsBranchPush(log[n - 1]) /\ log[n - 1].ok
                      /\ log[n - 1].arg = log[n].arg
        /\ (IsBranchPush(log[n]) /\ n < Len(log)) =>
                IF log[n].ok
                THEN IsTagPush(log[n + 1]) /\ log[n + 1].arg = log[n].arg
                ELSE IsBranchPush(log[n + 1]) /\ log[n + 1].arg # log[n].arg
    /\ SyncReturned =>
            \A r \in Range(backup_remotes) : TagPushAttempted(r) <=> BranchPushedOk(r)

\* C33 witness: the branch push to backup0 failed and no tags were pushed to
\* it; the branch push to backup1 succeeded and its tags were pushed.
C33_Witness ==
    /\ SyncReturned /\ sync_ok
    /\ FanoutAttempts = <<"backup0", "backup1">>
    /\ ~BranchPushedOk("backup0") /\ ~TagPushAttempted("backup0")
    /\ BranchPushedOk("backup1") /\ TagPushAttempted("backup1")

(* ======================= claims: the two Reconcilers =================== *)
\* A call of either setup_git_remotes returned, prev.remotes being the
\* remote set it started from, and every command it issued succeeded.
VariantReturnedAllOk ==
    /\ entry \in {"setup_git_remotes", "operations.setup_git_remotes"}
    /\ pc = "idle" /\ calls > 0 /\ prev.fn # ""
    /\ AllOk(log)

\* C34: started from the same remote set with the same Project, every
\* command succeeding, setup_git_remotes of backup.py and setup_git_remotes
\* of backup/operations.py end with the same remotes: both end with what
\* backup.py's set origin, remove the backups, re-add them leaves.
C34_VariantEquivalence ==
    VariantReturnedAllOk =>
        /\ setup_ok
        /\ repo.remotes = ModuleOutcome(prev.remotes, proj.id, proj.paths)

(* ======================= claims: the editor of the mapping ============= *)
HasNonBlankPath(value) == \E n \in 1..Len(StoredPaths(value)) : StoredPaths(value)[n] # ""

\* C35: after any sequence of menu actions of edit_gitlab_paths every
\* Project still in the stored mapping has at least one non-blank
\* DestinationPath.
C35_PathsNonEmpty ==
    entry = "edit_gitlab_paths" =>
        \A j \in 1..Len(config) : HasNonBlankPath(config[j].value)

====
